---- MODULE Spec2Model ----
(***************************************************************************)
(* A model of Talk2Code's assistant-invocation streaming engine:           *)
(*   - OrchestratorService.stream_code_workflow / _produce_code_events     *)
(*     (services/orchestrator_service.py) as consumed by                   *)
(*     AssistantService.handle_code_intent (services/assistant_service.py) *)
(*   - BrainstormService.stream_brainstorm (services/brainstorm_service.py)*)
(*   - LLMOrchestrator.compress_conversation and                           *)
(*     StreamOrchestrator.run_streaming (llm_orchestrator.py)              *)
(*   - SessionManager's cancellation flags (session_manager.py)            *)
(*   - GeminiAssistant.rotate_model (assistants/gemini.py), the default    *)
(*     assistant registered in assistant_manager.py                        *)
(*                                                                         *)
(* asyncio is cooperative: a coroutine runs without interruption from one  *)
(* suspension point (an await that really suspends) to the next, so each   *)
(* action below is the code between two suspension points of one task.     *)
(* A put on the unbounded asyncio.Queue never suspends.                    *)
(***************************************************************************)
EXTENDS Integers, Sequences, FiniteSets, TLC

\* ------------------------------------------------------------------ bounds

\* stdout lines one process may write
MaxLines == 1
\* stderr lines one process may write
MaxErrLines == 1
\* cancel requests the user sends in one behaviour
MaxCancels == 1

\* seconds of wall-clock time followed by the hang-detection model
MaxTime == 135
\* lines of the output handed to _detect_question
MaxTextLines == 6
\* capacity of a subscriber's queue (64 in the source)
MaxQueueSize == 2
\* events published to the hub in one behaviour
MaxPublishes == 4
\* attempts of one run_streaming call (models the provider can rotate through)
MaxAttempts == 2
\* stdout lines one attempt's process writes
MaxAttemptLines == 1
\* payloads one attempt's heartbeat emits
MaxBeats == 1
\* seconds of a stage's elapsed time that are followed by the estimator model
MaxElapsed == 31
\* characters of a text handed to split_message
MaxSplitText == 30
\* events the delivery adapter takes from one stream
MaxDeliveryEvents == 4
\* chunks active_body may hold in the header model
MaxHeaderChunks == 3
\* stream events handed to the event sink, and payloads to the progress sink
MaxSinkEvents == 3
MaxSinkBeats == 1
\* half seconds the heartbeat clock runs, and lines the readers take meanwhile
MaxBeatTicks == 33
MaxBeatEvents == 2
\* tokens of a prompt handed to analyze_prompt_complexity: words of no
\* special kind, keywords (def), file references (a.b), ``` fences
MaxPlainWords == 101
MaxKeywords == 1
MaxFileRefs == 11
MaxFences == 12
\* brainstorm invocations whose process ran to its end
MaxInvocations == 5
\* entries a chat's history may hold
MaxHistory == 3

\* ------------------------------------------------------- program constants

\* len(GeminiAssistant.models)
NumModels == 2
\* process.returncode is None
Running == -1
\* SessionManager._next_session_id of a new manager
FirstSessionId == 1

\* Telegram chat ids the user's chat may have; session ids are handed out
\* from FirstSessionId, so chat 1 is the case where the chat id and its
\* session id happen to be the same number.
ChatIds == {1, 2}

\* Decoded stdout lines: the StreamEvent the assistant's parse_line returns.
\*   text      TEXT with non-whitespace content
\*   ws        TEXT whose content is whitespace only
\*   reasoning REASONING with content
\* A TOOL_RESULT with content acts on output_buffer and token_count as "text"
\* does; TOOL_USE and lines parse_line rejects touch neither.
LineKinds == {"text", "ws", "reasoning"}
\* stderr lines: a line that is_rate_limit_error matches ("429 rate limit");
\* the stderr it does not match is the empty one
ErrKinds == {"rl"}

Readers == {"out", "err"}

VARIABLES
    chat,            \* the chat id of the user's chat (message.chat_id)
    sm,              \* SessionManager: chat_index, next session id, cancelled flags
    modelIdx,        \* GeminiAssistant: index of current_model in models (0: not in the
                     \* list); the assistant is a process-wide singleton, so a run
                     \* starts from whatever model earlier invocations rotated to
    wf,              \* the workflow of the current run: "none" | "code" | "brainstorm"
    pc,              \* position of the producer task
    cancels,         \* cancel requests made
    queue,           \* what the producer has put on the asyncio.Queue, ProgressUpdate
                     \* events left out (they carry no lifecycle, state or content)
    consumerClosed,  \* the consumer left its loop early (finally: task.cancel())
    producerDied,    \* the producer task ended with an exception of its own
    inv,             \* engine invocation in progress or last run: "none" | "compress" | "stream"
    outcome,         \* how the last engine invocation ended
    result,          \* the StreamingResult (or compress prompt) returned
    spawns,          \* processes spawned by this invocation
    attemptLog,      \* per finished attempt of this invocation: exit code, stderr class
    procSpawned,     \* this attempt's create_subprocess_exec returned a process
    pOut, pErr,      \* the process's stdout / stderr: "open" | "closed"
    exitCode,        \* process.returncode (Running while it has not exited)
    termSent,        \* process.terminate() was called
    rd,              \* each reader task's position
    nRead,           \* lines each reader has read from this process
    output_buffer,   \* run_streaming / compress_conversation local
    error_output,    \* run_streaming / compress_conversation local
    token_count,     \* run_streaming local
    current_stage,   \* _execute_streaming local
    had_content,     \* _execute_streaming local
    cancelSeen,      \* history: a cancel request arrived during this invocation
    cancelWatch      \* history of this run_streaming: "pending" once a cancel request
                     \* arrived while its readers ran, "checked" once a reader made a
                     \* pre-read check after that, "no" before

smVars == <<chat, sm, cancels>>
procVars == <<procSpawned, pOut, pErr, exitCode, termSent>>
bufVars == <<output_buffer, error_output, token_count>>
sinkVars == <<current_stage, had_content>>
histVars == <<cancelSeen, cancelWatch>>

vars == <<chat, sm, modelIdx, wf, pc, cancels, queue, consumerClosed,
          producerDied, inv, outcome, result, spawns, attemptLog, procSpawned,
          pOut, pErr, exitCode, termSent, rd, nRead, output_buffer,
          error_output, token_count, current_stage, had_content, cancelSeen,
          cancelWatch>>

\* ------------------------------------------------- component models' state
\* The components below are modelled on their own, each under a specification
\* of its own; the workflow model above leaves their variables alone, and
\* they leave the workflow's.

\* -- hang detection of read_stream_with_timeout, with a clock
VARIABLES
    hNow,            \* time.time(), in seconds since the process was spawned
    hLast,           \* last_activity
    hWait,           \* per reader: when its current wait_for(readline, 5.0) began
    hRd,             \* per reader: "read" | "done" | "hang"
    hOpen,           \* the process's streams are open
    hProc            \* "running" | "exited" | "terminated"

hangVars == <<hNow, hLast, hWait, hRd, hOpen, hProc>>

\* -- one stdout line through parse_line, the event branches and finishing
VARIABLES
    dProv,           \* the provider whose parse_line decodes the line
    dLine,           \* the stdout line, as json.loads sees it
    dEv,             \* parse_line's outcome for it
    dBuf,            \* output_buffer, a sequence of content chunks
    dTok,            \* token_count
    dOut             \* how the run ended

decodeVars == <<dProv, dLine, dEv, dBuf, dTok, dOut>>

\* -- _detect_question applied to a finished output
VARIABLES
    qText,           \* output_buffer, a sequence of lines
    qRes             \* clean_output and the question found in it

questionVars == <<qText, qRes>>

\* -- ObservabilityHub
VARIABLES
    hubSubs,         \* _subscribers: the queues subscribed
    hubGone,         \* the queues whose unsubscribe has returned
    hubQ,            \* per queue: its events, oldest first
    hubNext,         \* the number of the next event published
    hubLast,         \* the last publish: its event and the hub as it began
    hubMark          \* per queue: the last event that was published before it
                     \* subscribed or that its reader took, whichever is later

hubVars == <<hubSubs, hubGone, hubQ, hubNext, hubLast, hubMark>>

\* -- run_streaming's attempts, each with its process, readers and heartbeat
VARIABLES
    rPc,             \* where run_streaming is: "spawn" | "gather" | "wait" | "bounded" | "done"
    rAttempt,        \* the number of the current attempt
    rProc,           \* the current process: "none" | "running" | "exited_rl" | "exited_ok"
    rRd,             \* per reader of the current attempt: "read" | "done"
    rHb,             \* per attempt, its heartbeat task: "none" | "check" | "sleep" | "cancelled" | "ended"
    rLog             \* what the callbacks were handed: per attempt the stream events
                     \* and heartbeat payloads, and whether any came from an attempt
                     \* older than the last one spawned

retryVars == <<rPc, rAttempt, rProc, rRd, rHb, rLog>>

\* -- one assistant object: its model settings, get_command and rotate_model
VARIABLES
    asst,            \* the assistant: name, current_model, plan_model, build_model
    aPrev,           \* the get_command call before the last, if no setting changed since
    aNow,            \* the last get_command call: arguments, argv, the assistant before it
    aRot,            \* the last rotate_model call: the assistant before it, what it returned
    aTrue            \* how often rotate_model returned True

asstVars == <<asst, aPrev, aNow, aRot, aTrue>>

\* -- ProgressEstimator: the current stage, its clock and get_progress
VARIABLES
    eStage,          \* _current_stage ("none": None)
    eElapsed,        \* time.time() - _stage_start_time, in seconds
    ePrev,           \* the get_progress call before the last for this stage
    eLast,           \* the last get_progress call for this stage: elapsed, progress
    eFirst           \* no stage was current before the present one in this estimator

estVars == <<eStage, eElapsed, ePrev, eLast, eFirst>>

\* -- split_message on one text
VARIABLES
    spText,          \* text, a sequence of characters
    spMax,           \* max_length
    spNumbering,     \* add_numbering
    spPc,            \* "call" | "loop" | "done"
    spRemaining,     \* remaining
    spChunkNum,      \* chunk_num
    spChunks         \* chunks: each a body and the length of its numbering suffix

splitVars == <<spText, spMax, spNumbering, spPc, spRemaining, spChunkNum, spChunks>>

\* -- TelegramDeliveryAdapter.consume_domain_events on a stream of events
VARIABLES
    dvPc,            \* "loop" | "raised"
    dvHandled,       \* events taken from the stream
    dvStatus,        \* status_message_id (0: None)
    dvReply,         \* reply_to_id
    dvFailureReported, \* failure_reported
    dvNextId,        \* the message_id the bot gives the next message sent
    dvLast,          \* the last event handled: the event, reply_to_id before it,
                     \* the send_message and edit calls made for it
    dvFail           \* failure messages sent so far, ProcessingFailed and FAILED events handled

deliveryVars == <<dvPc, dvHandled, dvStatus, dvReply, dvFailureReported, dvNextId, dvLast, dvFail>>

\* -- the status header kept by read_stream_with_timeout's event branches
VARIABLES
    hdLastType,      \* last_event_type ("none": None)
    hdHeader,        \* active_header
    hdBody,          \* active_body: the chunks appended since it was last cleared
    hdStage,         \* progress.current_stage
    hdPrev,          \* the type of the stdout event handled last ("none": no event yet)
    hdStep           \* the last event handled: its type, the type of the event
                     \* before it, and what its branch assigned

headerVars == <<hdLastType, hdHeader, hdBody, hdStage, hdPrev, hdStep>>

\* -- _execute_streaming's event_sink and progress_sink on a stream of events
VARIABLES
    skStage,         \* current_stage
    skPc,            \* where event_sink is: "idle" | "branch" | "emit" | "content" | "emit_result"
    skEv,            \* the stream event event_sink is handling, or handled last
    skQ,             \* what the sinks have put on the queue
    skHandled,       \* stream events handed to event_sink
    skBeats          \* payloads handed to progress_sink

sinkModelVars == <<skStage, skPc, skEv, skQ, skHandled, skBeats>>

\* -- the heartbeat and emit_progress of run_streaming and of
\* compress_conversation, with a clock
VARIABLES
    bMode,           \* "stream": run_streaming, "compress": compress_conversation
    bOwned,          \* the nonlocal state the readers write
    bNow,            \* time.time() since the process was spawned, in half seconds
    bLastEdit,       \* last_edit_time
    bWake,           \* when the heartbeat's asyncio.sleep(5) ends
    bMgrWake,        \* when HeartbeatManager's asyncio.sleep(interval) ends
    bMgrLogs,        \* heartbeats the HeartbeatManager has logged
    bContent,        \* the last content-driven payload: when, and the last heartbeat before it
    bBeat            \* the last heartbeat payload: when, the last content-driven payload
                     \* before it, and what it carried

beatVars == <<bMode, bOwned, bNow, bLastEdit, bWake, bMgrWake, bMgrLogs, bContent, bBeat>>

\* -- ProgressEstimator.analyze_prompt_complexity
VARIABLES
    cxPrompt,        \* the prompt: how many tokens of each kind it holds
    cxResult         \* the dictionary analyze_prompt_complexity returned

complexityVars == <<cxPrompt, cxResult>>

\* -- _handle_brainstorm's loop detection
VARIABLES
    lpCount,         \* per chat: consecutive_empty_responses
    lpRun,           \* per chat: the invocations in a row that returned an empty response
    lpLast,          \* the last invocation: its chat, what the process gave, what was reported
    lpCalls          \* invocations so far

loopVars == <<lpCount, lpRun, lpLast, lpCalls>>

\* -- SessionManager's conversation state of one chat, and the #code
\* workflow's use of it
VARIABLES
    ssState,         \* the chat's SessionState: history, window_start, cancelled, pending_question
    ssLast,          \* the last SessionManager call: its name, whether the history it
                     \* found is still the beginning of the history it left, and
                     \* whether it left the state as it was
    ssWf             \* _produce_code_events: where it is, what it found the window to
                     \* be, the events it emitted, the processes it had spawned, the
                     \* SessionManager writes it made

sessionVars == <<ssState, ssLast, ssWf>>

auxVars == <<hangVars, decodeVars, questionVars, hubVars, retryVars,
            asstVars,
            estVars,
            splitVars,
            deliveryVars,
            headerVars,
            sinkModelVars,
            beatVars,
            complexityVars,
            loopVars,
            sessionVars>>

allVars == <<vars, auxVars>>

\* ------------------------------------------------ text, as lines of output
\* A line of output is described by what _detect_question looks at: whether
\* it starts with whitespace, the length of its stripped text, whether it
\* holds a "?", and n, its position in the text it came from.

TextLine(lead, body, q, n) == [lead |-> lead, body |-> body, q |-> q, n |-> n]

\* what "".split("\n") yields, and what stands for None
EmptyLine == TextLine(0, 0, FALSE, 0)

IsBlank(l) == l.body = 0

\* l.strip()
StripLine(l) == [l EXCEPT !.lead = 0]

\* lines[-5:]
LastLinesWindow == 5

\* len(l.strip()) > 10
QuestionMinLen == 10

\* text.strip(): blank lines at both ends go, and so does the whitespace
\* before the first line that is left
StripText(t) ==
    IF \A i \in 1..Len(t) : IsBlank(t[i])
    THEN <<>>
    ELSE LET first == CHOOSE i \in 1..Len(t) :
                         /\ ~IsBlank(t[i])
                         /\ \A j \in 1..(i - 1) : IsBlank(t[j])
             last == CHOOSE i \in 1..Len(t) :
                         /\ ~IsBlank(t[i])
                         /\ \A j \in (i + 1)..Len(t) : IsBlank(t[j])
             mid == SubSeq(t, first, last)
         IN [mid EXCEPT ![1] = StripLine(mid[1])]

\* text.split("\n")
SplitLines(t) == IF t = <<>> THEN <<EmptyLine>> ELSE t

IsQuestionLine(l) == l.q /\ l.body > QuestionMinLen

\* A variant of _detect_question that drops blank lines before taking the
\* last five, to show that C15_DetectQuestion depends on the window counting
\* every line.
DetectQuestion_NonEmptyWindow(text) ==
    LET lines == SelectSeq(SplitLines(StripText(text)), LAMBDA l : ~IsBlank(l))
        last_lines == IF Len(lines) >= LastLinesWindow
                      THEN SubSeq(lines, Len(lines) - LastLinesWindow + 1, Len(lines))
                      ELSE lines
        question_lines == SelectSeq(last_lines, IsQuestionLine)
    IN IF question_lines # <<>>
       THEN StripLine(question_lines[Len(question_lines)])
       ELSE EmptyLine

\* _detect_question
DetectQuestion(text) ==
    LET lines == SplitLines(StripText(text))
        last_lines == IF Len(lines) >= LastLinesWindow
                      THEN SubSeq(lines, Len(lines) - LastLinesWindow + 1, Len(lines))
                      ELSE lines
        question_lines == SelectSeq(last_lines, IsQuestionLine)
    IN IF question_lines # <<>>
       THEN StripLine(question_lines[Len(question_lines)])
       ELSE EmptyLine

\* ----------------------------------------- JSON, as json.loads returns it
\* A value is its Python type and, for a string, its text.  JAbsent stands
\* for a key the object does not have.

JAbsent == [k |-> "absent", v |-> ""]

JNull == [k |-> "null", v |-> ""]

JStr(text) == [k |-> "str", v |-> text]

JNum == [k |-> "num", v |-> "5"]

JTrue == [k |-> "true", v |-> ""]

JFalse == [k |-> "false", v |-> ""]

JObj == [k |-> "obj", v |-> ""]

\* dict.get(key, default)
DictGet(j, default) == IF j = JAbsent THEN default ELSE j

\* bool(value)
Truthy(j) == (j.k = "str" /\ j.v # "") \/ j.k \in {"num", "true"}

\* str.lower(), on the type names the lines below carry
Lower(text) == IF text = "TEXT" THEN "text" ELSE text

\* A stdout line: top is the Python type json.loads(line) returns ("nonjson"
\* when it raises JSONDecodeError), raw the line itself, and, for an object,
\* the keys the decoders read.  The lines carry no "error" key.
StdoutLine(top, raw, type, role, delta, content, part, partText, partOutput, output) ==
    [top |-> top, raw |-> raw, type |-> type, role |-> role, delta |-> delta,
     content |-> content, part |-> part, partText |-> partText,
     partOutput |-> partOutput, output |-> output]

NonObjectLine(top, raw) ==
    StdoutLine(top, raw, JAbsent, JAbsent, JAbsent, JAbsent, JAbsent, JAbsent, JAbsent, JAbsent)

ObjectLine(type, role, delta, content, part, partText, partOutput, output) ==
    StdoutLine("obj",
               IF JStr("Shall I delete it?") \in {content, partText} THEN "{..?..}" ELSE "{..}",
               type, role, delta, content, part, partText, partOutput, output)

NonObjectLines ==
    {NonObjectLine("nonjson", "not json"), NonObjectLine("num", "5"),
     NonObjectLine("str", "\"hi\""), NonObjectLine("arr", "[1]"),
     NonObjectLine("null", "null")}

TypeValues ==
    {JAbsent, JNum, JStr("text"), JStr("TEXT"), JStr("message"), JStr("reasoning"),
     JStr("tool_use"), JStr("tool_result"), JStr("result")}

ContentValues == {JAbsent, JStr("hello"), JStr("Shall I delete it?")}

ObjectLines ==
    {ObjectLine(type, role, delta, content, part[1], part[2], part[3], output) :
        type \in TypeValues,
        role \in {JAbsent, JStr("assistant")},
        delta \in {JAbsent, JTrue},
        content \in ContentValues,
        part \in {<<JAbsent, JAbsent, JAbsent>>, <<JStr("x"), JAbsent, JAbsent>>}
                 \cup {<<JObj, pt, po>> : pt \in ContentValues \cup {JNum},
                                          po \in {JAbsent, JStr("out")}},
        output \in {JAbsent, JStr("out")}}

StdoutLines == NonObjectLines \cup ObjectLines

\* the text of a content chunk as a line of output
ChunkLength(text) ==
    CASE text = "hello" -> 5
      [] text = "Shall I delete it?" -> 18
      [] text = "out" -> 3
      [] text = "not json" -> 8
      [] text = "5" -> 1
      [] text = "\"hi\"" -> 4
      [] text = "[1]" -> 3
      [] text = "null" -> 4
      [] OTHER -> 40

ChunkHasQuestionMark(text) == text \in {"Shall I delete it?", "{..?..}"}

ChunkLine(text, n) == TextLine(0, ChunkLength(text), ChunkHasQuestionMark(text), n)

\* ---------------------------------------------------------- stream events

StreamEvent(type, content) == [res |-> "event", type |-> type, content |-> content]

\* parse_line returned None
NoEvent == [res |-> "none", type |-> "", content |-> JNull]

\* parse_line raised
Raised(exc) == [res |-> "raise", type |-> exc, content |-> JNull]

\* parse_line has not been called yet
NotParsed == [res |-> "pending", type |-> "", content |-> JNull]

\* GeminiAssistant.parse_line
GeminiParseLine(line) ==
    IF line.top = "nonjson" THEN StreamEvent("TEXT", JStr(line.raw))
    ELSE IF line.top # "obj" THEN Raised("AttributeError")
    ELSE IF DictGet(line.type, JStr("")).k # "str" THEN Raised("AttributeError")
    ELSE LET t == Lower(DictGet(line.type, JStr("")).v)
         IN CASE t = "message" ->
                   StreamEvent(IF line.role = JStr("assistant")
                                  /\ Truthy(DictGet(line.delta, JFalse))
                               THEN "REASONING" ELSE "TEXT",
                               DictGet(line.content, JStr("")))
              [] t = "tool_use" -> StreamEvent("TOOL_USE", JNull)
              [] t = "tool_result" ->
                   StreamEvent("TOOL_RESULT",
                               IF Truthy(line.output) THEN line.output ELSE JStr(""))
              [] t = "result" -> StreamEvent("FINISHED", JNull)
              [] OTHER -> NoEvent

\* part.get(key, "") for part = data.get("part", {})
PartGet(line, field) ==
    IF line.part = JAbsent THEN StreamEvent("", JStr(""))
    ELSE IF line.part # JObj THEN Raised("AttributeError")
    ELSE StreamEvent("", DictGet(field, JStr("")))

\* A variant of OpenCodeAssistant.parse_line that takes the text of a
\* "reasoning" or "text" line from the top-level "content" key instead of
\* part.text, to show that C14_ScenarioA depends on where the decoder reads.
OpenCodeParseLine_TopLevelContent(line) ==
    IF line.top = "nonjson" THEN StreamEvent("TEXT", JStr(line.raw))
    ELSE IF line.top # "obj" THEN Raised("AttributeError")
    ELSE IF DictGet(line.type, JStr("")).k # "str" THEN Raised("AttributeError")
    ELSE LET t == Lower(DictGet(line.type, JStr("")).v)
         IN CASE t = "reasoning" -> StreamEvent("REASONING", DictGet(line.content, JStr("")))
              [] t = "text" -> StreamEvent("TEXT", DictGet(line.content, JStr("")))
              [] t = "tool_use" -> StreamEvent("TOOL_USE", JNull)
              [] t = "tool_result" -> StreamEvent("TOOL_RESULT", DictGet(line.output, JStr("")))
              [] OTHER -> NoEvent

\* OpenCodeAssistant.parse_line
OpenCodeParseLine(line) ==
    IF line.top = "nonjson" THEN StreamEvent("TEXT", JStr(line.raw))
    ELSE IF line.top # "obj" THEN Raised("AttributeError")
    ELSE IF DictGet(line.type, JStr("")).k # "str" THEN Raised("AttributeError")
    ELSE LET t == Lower(DictGet(line.type, JStr("")).v)
             text == PartGet(line, line.partText)
             output == PartGet(line, line.partOutput)
         IN CASE t = "reasoning" ->
                   IF text.res = "raise" THEN text
                   ELSE StreamEvent("REASONING", text.content)
              [] t = "text" ->
                   IF text.res = "raise" THEN text
                   ELSE StreamEvent("TEXT", text.content)
              [] t = "tool_use" ->
                   IF text.res = "raise" THEN text
                   ELSE StreamEvent("TOOL_USE", JNull)
              [] t = "tool_result" ->
                   IF output.res = "raise" THEN output
                   ELSE StreamEvent("TOOL_RESULT", output.content)
              [] OTHER -> NoEvent

\* CodexAssistant.parse_line
CodexParseLine(line) == StreamEvent("TEXT", JStr(line.raw))

Providers == {"gemini", "opencode", "codex"}

\* assistant_manager registers these two
RegisteredProviders == {"gemini", "opencode"}

parse_line(provider, line) ==
    CASE provider = "gemini" -> GeminiParseLine(line)
      [] provider = "opencode" -> OpenCodeParseLine(line)
      [] provider = "codex" -> CodexParseLine(line)

\* ------------------------------------------------------------ domain events

Ev(t, s, x) == [t |-> t, s |-> s, x |-> x]

Started == Ev("STARTED", "", "")
Completed == Ev("COMPLETED", "", "")
Failed == Ev("FAILED", "", "")
Sentinel == Ev("SENTINEL", "", "")
StateChanged(s) == Ev("StateChanged", s, "")
ProcessingFailed(s) == Ev("ProcessingFailed", s, "")
ContentDelta(x, s) == Ev("ContentDelta", s, x)
TaskInteraction(s) == Ev("TaskInteraction", s, "")

IsTerminal(e) == e.t \in {"COMPLETED", "FAILED"}

\* ---------------------------------------------------------- SessionManager

get_or_create_session(s, k) ==
    IF k \in DOMAIN s.chat_index
    THEN s
    ELSE [chat_index |-> s.chat_index @@ (k :> s.next),
          next |-> s.next + 1,
          cancelled |-> s.cancelled @@ (s.next :> FALSE)]

cancel_session(s, k) ==
    LET t == get_or_create_session(s, k)
    IN [t EXCEPT !.cancelled[t.chat_index[k]] = TRUE]

unmark_cancelled(s, k) ==
    LET t == get_or_create_session(s, k)
    IN [t EXCEPT !.cancelled[t.chat_index[k]] = FALSE]

is_cancelled(s, k) ==
    LET t == get_or_create_session(s, k)
    IN t.cancelled[t.chat_index[k]]

\* handle_code_intent: session_id = get_or_create_session(message.chat_id).session_id
SessionIdOf(c) == sm.chat_index[c]

\* _execute_streaming / _compress_conversation: placeholder =
\* Message(None, session_id, None, ""), i.e. Message.chat_id = session_id; the
\* engine polls the cancellation flag under status_message.chat_id.
EngineKey == SessionIdOf(chat)

\* ------------------------------------------------------------- assistant

\* CodingAssistant.is_rate_limit_error: a keyword of the list occurs in stderr
is_rate_limit_error(err) == \E i \in 1..Len(err) : err[i].k = "rl"

\* a rotation that starts over at the first model after the last
rotate_model_Wraps(idx) ==
    IF idx < NumModels
    THEN [ok |-> TRUE, idx |-> idx + 1]
    ELSE [ok |-> TRUE, idx |-> 1]

\* GeminiAssistant.rotate_model: the index it leaves, and what it returns
rotate_model(idx) ==
    IF idx = 0
    THEN [ok |-> TRUE, idx |-> 1]               \* except ValueError: models[0]
    ELSE IF idx < NumModels
         THEN [ok |-> TRUE, idx |-> idx + 1]
         ELSE [ok |-> FALSE, idx |-> idx]

\* str.strip() of the buffer is not "": some chunk has a non-whitespace character
HasText(buf) == \E i \in 1..Len(buf) : buf[i].k \in {"text", "reasoning"}

\* ------------------------------------------------------------------- Init

NoResult == [output |-> <<>>, tokens |-> 0, question |-> FALSE]

EngineInit ==
    /\ chat \in ChatIds
    /\ sm = [chat_index |-> <<>>, next |-> FirstSessionId, cancelled |-> <<>>]
    /\ modelIdx \in 1..NumModels
    /\ wf = "none"
    /\ pc = "idle"
    /\ cancels = 0
    /\ queue = <<>>
    /\ consumerClosed = FALSE
    /\ producerDied = FALSE
    /\ inv = "none"
    /\ outcome = "none"
    /\ result = NoResult
    /\ spawns = 0
    /\ attemptLog = <<>>
    /\ procSpawned = FALSE
    /\ pOut = "closed"
    /\ pErr = "closed"
    /\ exitCode = 0
    /\ termSent = FALSE
    /\ rd = [r \in Readers |-> "done"]
    /\ nRead = [r \in Readers |-> 0]
    /\ output_buffer = <<>>
    /\ error_output = <<>>
    /\ token_count = 0
    /\ current_stage = "coding"
    /\ had_content = FALSE
    /\ cancelSeen = FALSE
    /\ cancelWatch = "no"

\* A component that is not the one under study stays in one fixed state.
HangParked ==
    /\ hNow = 0
    /\ hLast = 0
    /\ hWait = [r \in Readers |-> 0]
    /\ hRd = [r \in Readers |-> "done"]
    /\ hOpen = FALSE
    /\ hProc = "exited"

DecodeParked ==
    /\ dProv = "gemini"
    /\ dLine = NonObjectLine("nonjson", "not json")
    /\ dEv = NotParsed
    /\ dBuf = <<>>
    /\ dTok = 0
    /\ dOut = "none"

QuestionParked ==
    /\ qText = <<>>
    /\ qRes = [done |-> FALSE, clean |-> <<>>, question |-> EmptyLine]

\* the queues that subscribe() may create in one behaviour
QueueIds == {"q1", "q2", "q3"}

NoPublish == [ev |-> 0, subs |-> {}, gone |-> {}, before |-> [q \in QueueIds |-> <<>>], fresh |-> FALSE]

\* ObservabilityHub.__init__
HubInit ==
    /\ hubSubs = {}
    /\ hubGone = {}
    /\ hubQ = [q \in QueueIds |-> <<>>]
    /\ hubNext = 1
    /\ hubLast = NoPublish
    /\ hubMark = [q \in QueueIds |-> 0]

HubParked == HubInit

Attempts == 1..MaxAttempts

NothingLogged ==
    [event |-> [a \in Attempts |-> 0], beat |-> [a \in Attempts |-> 0], stale |-> FALSE,
     exited |-> FALSE, returned |-> FALSE]

\* run_streaming is called
RetryInit ==
    /\ rPc = "spawn"
    /\ rAttempt = 1
    /\ rProc = "none"
    /\ rRd = [r \in Readers |-> "done"]
    /\ rHb = [a \in Attempts |-> "none"]
    /\ rLog = NothingLogged

RetryParked ==
    /\ rPc = "done"
    /\ rAttempt = 1
    /\ rProc = "none"
    /\ rRd = [r \in Readers |-> "done"]
    /\ rHb = [a \in Attempts |-> "none"]
    /\ rLog = NothingLogged

\* -- the assistant objects
\* GeminiAssistant.models
GeminiModels == <<"gemini-3-flash-preview", "gemini-3-pro-preview">>

\* no model: None, and the attributes a class does not have
NoModel == "none"

\* _DEFAULT_PLAN_MODEL, _DEFAULT_BUILD_MODEL (the environment sets neither)
DefaultPlanModel == "google/gemini-3-flash-preview"
DefaultBuildModel == "openai/gpt-5.1-codex-mini"

AssistantNames == {"gemini", "opencode", "codex"}

\* __init__ of the three assistant classes
NewAssistant(name) ==
    CASE name = "gemini" ->
           [name |-> name, current_model |-> GeminiModels[1],
            plan_model |-> NoModel, build_model |-> NoModel]
      [] name = "opencode" ->
           [name |-> name, current_model |-> DefaultBuildModel,
            plan_model |-> DefaultPlanModel, build_model |-> DefaultBuildModel]
      [] OTHER ->
           [name |-> name, current_model |-> "codex-1",
            plan_model |-> NoModel, build_model |-> NoModel]

NoCall == [made |-> FALSE]
NoRotation == [made |-> FALSE]

AsstInit ==
    /\ asst \in {NewAssistant(name) : name \in AssistantNames}
    /\ aPrev = NoCall
    /\ aNow = NoCall
    /\ aRot = NoRotation
    /\ aTrue = 0

AsstParked ==
    /\ asst = NewAssistant("gemini")
    /\ aPrev = NoCall
    /\ aNow = NoCall
    /\ aRot = NoRotation
    /\ aTrue = 0

\* -- ProgressEstimator
NoProgress == [made |-> FALSE]

EstInit ==
    /\ eStage = "none"
    /\ eElapsed = 0
    /\ ePrev = NoProgress
    /\ eLast = NoProgress
    /\ eFirst = TRUE

EstParked == EstInit

\* -- split_message
SplitParked ==
    /\ spText = <<>>
    /\ spMax = 0
    /\ spNumbering = FALSE
    /\ spPc = "done"
    /\ spRemaining = <<>>
    /\ spChunkNum = 0
    /\ spChunks = <<>>

\* -- the delivery adapter
\* request.message_id is 1; the bot numbers the messages it sends from 2
NoDelivery == [ev |-> [t |-> "none", arg |-> "none"], reply |-> 0, sends |-> 0, edits |-> 0]

DeliveryInit ==
    /\ dvPc = "loop"
    /\ dvHandled = 0
    /\ dvStatus = 0
    /\ dvReply = 1
    /\ dvFailureReported = FALSE
    /\ dvNextId = 2
    /\ dvLast = NoDelivery
    /\ dvFail = [sends |-> 0, pf |-> 0, failed |-> 0]

DeliveryParked == DeliveryInit

\* -- the status header
NoStep == [type |-> "none", prev |-> "none", header |-> FALSE, cleared |-> FALSE,
           timer |-> FALSE, stage |-> FALSE]

\* lines 306-318: the locals of a new attempt
HeaderInit ==
    /\ hdLastType = "none"
    /\ hdHeader = "starting"
    /\ hdBody = 0
    /\ hdStage = "invoking_assistant"
    /\ hdPrev = "none"
    /\ hdStep = NoStep

HeaderParked == HeaderInit

\* -- the event sink: _produce_code_events calls _execute_streaming with CODING
SinkInit ==
    /\ skStage = "coding"
    /\ skPc = "idle"
    /\ skEv = [type |-> "none", content |-> FALSE]
    /\ skQ = <<>>
    /\ skHandled = 0
    /\ skBeats = 0

SinkParked == SinkInit

\* -- the heartbeat's clock, in half seconds
\* asyncio.sleep(5) of the heartbeat
BeatSleep == 10
\* HeartbeatManager(interval_seconds=8)
ManagerInterval == 16
\* HeartbeatManager: `if elapsed < 10: continue`
MinElapsed == 20
\* edit_rate_limit, 0.5 s
EditRateLimit == 1

\* no payload yet: a time before every time of the clock
Never == 0 - MinElapsed

BeatModes == {"stream", "compress"}

\* lines 121-127 and 306-318: the nonlocal state at the spawn; the buffers
\* as lengths
OwnedInit(mode) ==
    [output_buffer |-> 0, error_output |-> 0, token_count |-> 0,
     active_header |-> IF mode = "stream" THEN "" ELSE "Compressing conversation...",
     active_body |-> 0, last_event_type |-> "none", last_activity |-> 0]

NoBeat == [at |-> Never, content |-> Never, header |-> "", body |-> 0, tokens |-> 0]

BeatInit ==
    /\ bMode \in BeatModes
    /\ bOwned = OwnedInit(bMode)
    /\ bNow = 0
    /\ bLastEdit = 0
    /\ bWake = BeatSleep
    /\ bMgrWake = ManagerInterval
    /\ bMgrLogs = 0
    /\ bContent = [at |-> Never, beat |-> Never]
    /\ bBeat = NoBeat

BeatParked == BeatInit /\ bMode = "stream"

\* -- analyze_prompt_complexity
NoAnalysis == [made |-> FALSE]

ComplexityParked ==
    /\ cxPrompt = [plain |-> 0, keyword |-> 0, file_ref |-> 0, fence |-> 0]
    /\ cxResult = NoAnalysis

\* -- loop detection
NoInvocation == [made |-> FALSE]

LoopInit ==
    /\ lpCount = [c \in ChatIds |-> 0]
    /\ lpRun = [c \in ChatIds |-> 0]
    /\ lpLast = NoInvocation
    /\ lpCalls = 0

LoopParked == LoopInit

\* -- SessionManager's conversation state
\* SessionState as _create_session makes it
NewSessionState ==
    [history |-> <<>>, window_start |-> 0, cancelled |-> FALSE, pending_question |-> "none"]

NoCodeWorkflow == [pc |-> "idle", window |-> "unread", emitted |-> <<>>, spawns |-> 0, writes |-> 0]

SessionInit ==
    /\ ssState = NewSessionState
    /\ ssLast = [op |-> "none", kept |-> TRUE, same |-> TRUE]
    /\ ssWf = NoCodeWorkflow

SessionParked == SessionInit

EngineParked == EngineInit /\ chat = 1 /\ modelIdx = 1

Init == EngineInit /\ HangParked /\ DecodeParked /\ QuestionParked /\ HubParked /\ RetryParked
    /\ AsstParked
    /\ EstParked
    /\ SplitParked
    /\ DeliveryParked
    /\ HeaderParked
    /\ SinkParked
    /\ BeatParked
    /\ ComplexityParked
    /\ LoopParked
    /\ SessionParked

engineVars == <<inv, outcome, result, spawns, attemptLog, rd, nRead>>

Stream(r) == IF r = "out" THEN pOut ELSE pErr

\* ----------------------------------------------------- the user's requests

\* telegram_handler.handle_cancel / handle_stop: cancel_session(chat_id)
CancelSession ==
    /\ cancels < MaxCancels
    /\ cancels' = cancels + 1
    /\ sm' = cancel_session(sm, chat)
    /\ cancelSeen' = (cancelSeen \/ pc \in {"e_spawn", "e_gather", "e_wait", "e_wait2"})
    /\ cancelWatch' = (IF inv = "stream" /\ pc = "e_gather" /\ cancelWatch = "no"
                       THEN "pending" ELSE cancelWatch)
    /\ UNCHANGED <<chat, modelIdx, wf, pc, queue, consumerClosed, producerDied,
                   engineVars, procVars, bufVars, sinkVars>>
    /\ UNCHANGED auxVars

\* ------------------------------------------------ #code workflow: producer

\* handle_code_intent (get_or_create_session(message.chat_id)) -> _run_workflow
\* -> stream_code_workflow: the producer task starts, puts STARTED and suspends
\* in _emit(StateChanged) (log_event)
StartCode ==
    /\ pc = "idle"
    /\ wf' = "code"
    /\ sm' = get_or_create_session(sm, chat)
    /\ queue' = <<Started>>
    /\ pc' = "p_window"
    /\ UNCHANGED <<chat, cancels, modelIdx, consumerClosed, producerDied,
                   engineVars, procVars, bufVars, sinkVars, histVars>>
    /\ UNCHANGED auxVars

\* _produce_code_events lines 93-103: StateChanged(TRANSCRIBING), the window
\* check; `empty` is what get_conversation_window(chat_id) returned
ProduceWindow ==
    /\ pc = "p_window"
    /\ \E empty \in BOOLEAN :
          IF empty
          THEN /\ queue' = queue \o <<StateChanged("transcribing"),
                                      ProcessingFailed("transcribing"), Failed, Sentinel>>
               /\ pc' = "done"
          ELSE /\ queue' = Append(queue, StateChanged("transcribing"))
               /\ pc' = "p_think"
    /\ UNCHANGED <<smVars, modelIdx, wf, consumerClosed, producerDied,
                   engineVars, procVars, bufVars, sinkVars, histVars>>
    /\ UNCHANGED auxVars

\* lines 103-104: StateChanged(THINKING) is put, _log_llm_thought suspends
ProduceThinking ==
    /\ pc = "p_think"
    /\ queue' = Append(queue, StateChanged("thinking"))
    /\ pc' = "p_call_compress"
    /\ UNCHANGED <<smVars, modelIdx, wf, consumerClosed, producerDied,
                   engineVars, procVars, bufVars, sinkVars, histVars>>
    /\ UNCHANGED auxVars

\* line 106 -> LLMOrchestrator.compress_conversation up to its first
\* create_subprocess_exec: the cancellation flag is not looked at
CallCompress ==
    /\ pc = "p_call_compress"
    /\ inv' = "compress"
    /\ spawns' = 0
    /\ attemptLog' = <<>>
    /\ cancelSeen' = FALSE
    /\ pc' = "e_spawn"
    /\ UNCHANGED <<smVars, modelIdx, wf, queue, consumerClosed, producerDied,
                   outcome, result, rd, nRead, procVars, bufVars, sinkVars,
                   cancelWatch>>
    /\ UNCHANGED auxVars

\* lines 135-137: StateChanged(CODING) is put, _log_llm_thought suspends
ProduceCoding ==
    /\ pc = "p_mid"
    /\ queue' = Append(queue, StateChanged("coding"))
    /\ pc' = "p_call_stream"
    /\ UNCHANGED <<smVars, modelIdx, wf, consumerClosed, producerDied,
                   engineVars, procVars, bufVars, sinkVars, histVars>>
    /\ UNCHANGED auxVars

\* run_streaming lines 282-284: a flag found set on entry is cleared
ResetFlagAtStart(s, k) ==
    IF is_cancelled(s, k) THEN unmark_cancelled(s, k) ELSE get_or_create_session(s, k)

\* line 139 -> _execute_streaming -> StreamOrchestrator.run_streaming up to
\* its first create_subprocess_exec
CallStream ==
    /\ pc = "p_call_stream"
    /\ inv' = "stream"
    /\ current_stage' = "coding"
    /\ had_content' = FALSE
    /\ sm' = ResetFlagAtStart(sm, EngineKey)
    /\ spawns' = 0
    /\ attemptLog' = <<>>
    /\ cancelSeen' = FALSE
    /\ cancelWatch' = "no"
    /\ outcome' = "none"
    /\ result' = NoResult
    /\ pc' = "e_spawn"
    /\ UNCHANGED <<chat, cancels, modelIdx, wf, queue, consumerClosed,
                   producerDied, rd, nRead, procVars, bufVars>>
    /\ UNCHANGED auxVars

\* lines 154-156 and the finally: StateChanged(EXECUTING), COMPLETED, sentinel
ProduceCompleted ==
    /\ pc = "p_exec_sc"
    /\ queue' = queue \o <<StateChanged("executing"), Completed, Sentinel>>
    /\ pc' = "done"
    /\ UNCHANGED <<smVars, modelIdx, wf, consumerClosed, producerDied,
                   engineVars, procVars, bufVars, sinkVars, histVars>>
    /\ UNCHANGED auxVars

\* ------------------------------------------------- the assistant process

\* the process is followed while an invocation owns it, and while a reader
\* task that outlived the invocation still reads its pipes
EngineActive ==
    \/ pc \in {"e_gather", "e_wait", "e_wait2"}
    \/ (/\ pc = "done"
        /\ outcome \in {"cancelled", "hang", "error", "lookup"}
        /\ \E r \in Readers : rd[r] = "read")

\* the process closes its output streams while it keeps running
ProcCloseStreams ==
    /\ EngineActive
    /\ procSpawned
    /\ exitCode = Running
    /\ pOut = "open"
    /\ pOut' = "closed"
    /\ pErr' = "closed"
    /\ UNCHANGED <<smVars, modelIdx, wf, pc, queue, consumerClosed, producerDied,
                   engineVars, procSpawned, exitCode, termSent, bufVars, sinkVars,
                   histVars>>
    /\ UNCHANGED auxVars

\* the process exits (by itself or on SIGTERM); its pipes close with it
ProcExit ==
    /\ EngineActive
    /\ procSpawned
    /\ exitCode = Running
    /\ \E code \in {0, 1} : exitCode' = code
    /\ pOut' = "closed"
    /\ pErr' = "closed"
    /\ UNCHANGED <<smVars, modelIdx, wf, pc, queue, consumerClosed, producerDied,
                   engineVars, procSpawned, termSent, bufVars, sinkVars, histVars>>
    /\ UNCHANGED auxVars

\* ------------------------------- run_streaming / compress_conversation

\* the state _produce_code_events reports a failure of the invocation under
ProducerState == IF inv = "compress" THEN "thinking" ELSE "coding"

\* The invocation raises `kind` to _produce_code_events, whose handler
\* (lines 157-166) puts ProcessingFailed, FAILED and the sentinel; none of these
\* puts suspends.
RaiseToProducer(kind) ==
    /\ outcome' = kind
    /\ queue' = queue \o <<ProcessingFailed(ProducerState), Failed, Sentinel>>
    /\ pc' = "done"

\* A variant in which output_buffer survives a retry, to show that
\* C5_LastAttemptOnly depends on the per-attempt reset.
SpawnOutputBuffer_Keep(prev) == prev

\* llm_orchestrator.py 306-314 (121-123): the locals a new attempt starts with
SpawnOutputBuffer(prev) == <<>>
SpawnErrorOutput(prev) == <<>>
SpawnTokenCount(prev) == 0

\* read_stream_with_timeout lines 341-346: the top of the loop. Nothing
\* suspends between the end of one iteration and the pre-read check of the
\* next, so the check belongs to the step that ends the iteration: the reader
\* raises CancelledError, or suspends in wait_for(readline, 5.0).
\* (is_cancelled creates the session of its key when there is none.)
PreReadCheck(s) == IF is_cancelled(s, EngineKey) THEN "cancel" ELSE "read"

\* The reader tasks run while gather is awaited. gather (without
\* return_exceptions) hands the first reader's exception to run_streaming and
\* leaves the other reader task running: it goes on after the handlers and
\* the producer have finished, until it reads end of stream or raises itself.
GatherRaised == {"cancelled", "hang", "error", "lookup"}
ReaderRuns == pc = "e_gather" \/ (pc = "done" /\ outcome \in GatherRaised)

\* history kept at each pre-read check
CheckNoted == IF cancelWatch = "pending" THEN "checked" ELSE cancelWatch

\* a handler that would move on to the next model when the binary is missing
NotFoundModel_Rotates(idx) == rotate_model(idx).idx

\* lines 557-562: except FileNotFoundError logs and re-raises; the model the
\* assistant is left with
NotFoundModel(idx) == idx

\* create_subprocess_exec returns a process, the locals are set up and gather
\* starts both readers, which run to their first readline; or
\* create_subprocess_exec raises FileNotFoundError
Spawn ==
    /\ pc = "e_spawn"
    /\ \E found \in BOOLEAN :
          IF found
          THEN /\ procSpawned' = TRUE
               /\ pOut' = "open"
               /\ pErr' = "open"
               /\ exitCode' = Running
               /\ termSent' = FALSE
               /\ output_buffer' = SpawnOutputBuffer(output_buffer)
               /\ error_output' = SpawnErrorOutput(error_output)
               /\ token_count' = SpawnTokenCount(token_count)
               /\ rd' = [r \in Readers |-> PreReadCheck(sm)]
               /\ sm' = get_or_create_session(sm, EngineKey)
               /\ nRead' = [r \in Readers |-> 0]
               /\ spawns' = spawns + 1
               /\ cancelWatch' = CheckNoted
               /\ pc' = "e_gather"
               /\ UNCHANGED <<queue, outcome, modelIdx>>
          ELSE /\ RaiseToProducer("notfound")
               /\ modelIdx' = NotFoundModel(modelIdx)
               /\ UNCHANGED <<procVars, bufVars, rd, nRead, spawns, sm,
                              cancelWatch>>
    /\ UNCHANGED <<chat, cancels, wf, consumerClosed, producerDied,
                   inv, result, attemptLog, sinkVars, cancelSeen>>
    /\ UNCHANGED auxVars

\* wait_for(readline, 5.0) times out and the 120 s threshold is not passed
ReaderPoll(r) ==
    /\ ReaderRuns
    /\ rd[r] = "read"
    /\ Stream(r) = "open"
    /\ rd' = [rd EXCEPT ![r] = PreReadCheck(sm)]
    /\ sm' = get_or_create_session(sm, EngineKey)
    /\ cancelWatch' = CheckNoted
    /\ UNCHANGED <<chat, cancels, modelIdx, wf, pc, queue, consumerClosed,
                   producerDied, inv, outcome, result, spawns, attemptLog, nRead,
                   procVars, bufVars, sinkVars, cancelSeen>>
    /\ UNCHANGED auxVars

\* wait_for(readline, 5.0) times out and last_activity is over 120 s ago
ReaderHang(r) ==
    /\ ReaderRuns
    /\ rd[r] = "read"
    /\ Stream(r) = "open"
    /\ rd' = [rd EXCEPT ![r] = "hang"]
    /\ UNCHANGED <<smVars, modelIdx, wf, pc, queue, consumerClosed,
                   producerDied, inv, outcome, result, spawns, attemptLog, nRead,
                   procVars, bufVars, sinkVars, histVars>>
    /\ UNCHANGED auxVars

\* readline returns b"": the loop breaks
ReaderEOF(r) ==
    /\ ReaderRuns
    /\ rd[r] = "read"
    /\ Stream(r) = "closed"
    /\ rd' = [rd EXCEPT ![r] = "done"]
    /\ UNCHANGED <<smVars, modelIdx, wf, pc, queue, consumerClosed,
                   producerDied, inv, outcome, result, spawns, attemptLog, nRead,
                   procVars, bufVars, sinkVars, histVars>>
    /\ UNCHANGED auxVars

\* A variant of the stderr branch that also appends the line to
\* output_buffer, to show that C20_StderrNeverContent depends on the branch
\* leaving the buffer alone.
StderrBranchOutput_Append(buf, line) == Append(buf, line)

\* lines 358-363: what the stderr branch does to output_buffer before its
\* `continue`: nothing
StderrBranchOutput(buf, line) == buf

\* a stderr line: appended to error_output, nothing else
ReadStderr(kind) ==
    /\ ReaderRuns
    /\ rd["err"] = "read"
    /\ pErr = "open"
    /\ nRead["err"] < MaxErrLines
    /\ error_output' = Append(error_output, [a |-> spawns, k |-> kind])
    /\ output_buffer' = StderrBranchOutput(output_buffer, [a |-> spawns, k |-> kind])
    /\ nRead' = [nRead EXCEPT !["err"] = @ + 1]
    /\ rd' = [rd EXCEPT !["err"] = PreReadCheck(sm)]
    /\ sm' = get_or_create_session(sm, EngineKey)
    /\ cancelWatch' = CheckNoted
    /\ UNCHANGED <<chat, cancels, modelIdx, wf, pc, queue, consumerClosed,
                   producerDied, inv, outcome, result, spawns, attemptLog,
                   procVars, token_count, sinkVars, cancelSeen>>
    /\ UNCHANGED auxVars

\* _execute_streaming.event_sink: the stage after the event
SinkStage(kind, stage) == IF kind = "tool_use" THEN "executing" ELSE "coding"

\* _execute_streaming.event_sink: the events it puts for one stream event
SinkEvents(kind, stage) ==
    (IF SinkStage(kind, stage) # stage THEN <<StateChanged(SinkStage(kind, stage))>> ELSE <<>>)
    \o (IF kind # "tool_use" THEN <<ContentDelta(kind, SinkStage(kind, stage))>> ELSE <<>>)

\* A stdout line of run_streaming (lines 369-446): event_sink, then the branch
\* of the event's type (emit_progress only produces a ProgressUpdate). The
\* awaits inside the handling of one line (event_sink, emit_progress) are taken
\* in one step with it; a callback that raises there is ReaderCallbackFails.
ReadStdoutStream(kind) ==
    /\ ReaderRuns
    /\ inv = "stream"
    /\ rd["out"] = "read"
    /\ pOut = "open"
    /\ nRead["out"] < MaxLines
    /\ current_stage' = SinkStage(kind, current_stage)
    /\ had_content' = (had_content \/ kind # "tool_use")
    /\ queue' = queue \o SinkEvents(kind, current_stage)
    /\ token_count' = (IF kind = "reasoning" THEN token_count + 1 ELSE token_count)
    /\ output_buffer' = (IF kind = "tool_use" THEN output_buffer
                         ELSE Append(output_buffer, [a |-> spawns, k |-> kind]))
    /\ nRead' = [nRead EXCEPT !["out"] = @ + 1]
    /\ rd' = [rd EXCEPT !["out"] = PreReadCheck(sm)]
    /\ sm' = get_or_create_session(sm, EngineKey)
    /\ cancelWatch' = CheckNoted
    /\ UNCHANGED <<chat, cancels, modelIdx, wf, pc, consumerClosed, producerDied,
                   inv, outcome, result, spawns, attemptLog, procVars,
                   error_output, cancelSeen>>
    /\ UNCHANGED auxVars

\* A stdout line of compress_conversation (lines 173-192): TEXT content goes to
\* output_buffer, REASONING content to reasoning_buffer, which is never
\* returned; emit_progress is called right after last_edit_time was set to now,
\* so its own rate limit always returns early and nothing is emitted.
ReadStdoutCompress(kind) ==
    /\ ReaderRuns
    /\ inv = "compress"
    /\ rd["out"] = "read"
    /\ pOut = "open"
    /\ nRead["out"] < MaxLines
    /\ output_buffer' = (IF kind \in {"text", "ws"}
                         THEN Append(output_buffer, [a |-> spawns, k |-> kind])
                         ELSE output_buffer)
    /\ nRead' = [nRead EXCEPT !["out"] = @ + 1]
    /\ rd' = [rd EXCEPT !["out"] = PreReadCheck(sm)]
    /\ sm' = get_or_create_session(sm, EngineKey)
    /\ UNCHANGED <<chat, cancels, modelIdx, wf, pc, queue, consumerClosed,
                   producerDied, inv, outcome, result, spawns, attemptLog,
                   procVars, error_output, token_count, sinkVars, histVars>>
    /\ UNCHANGED auxVars

\* event_sink or progress_callback raises while a stdout line is handled
\* (event_ledger.log_event writes a file): the exception leaves the reader
ReaderCallbackFails ==
    /\ ReaderRuns
    /\ inv = "stream"
    /\ rd["out"] = "read"
    /\ pOut = "open"
    /\ nRead["out"] < MaxLines
    /\ nRead' = [nRead EXCEPT !["out"] = @ + 1]
    /\ rd' = [rd EXCEPT !["out"] = "error"]
    /\ UNCHANGED <<smVars, modelIdx, wf, pc, queue, consumerClosed,
                   producerDied, inv, outcome, result, spawns, attemptLog,
                   procVars, bufVars, sinkVars, histVars>>
    /\ UNCHANGED auxVars

\* gather returned: both readers reached end of stream
GatherDone ==
    /\ pc = "e_gather"
    /\ \A r \in Readers : rd[r] = "done"
    /\ pc' = "e_wait"
    /\ UNCHANGED <<smVars, modelIdx, wf, queue, consumerClosed, producerDied,
                   engineVars, procVars, bufVars, sinkVars, histVars>>
    /\ UNCHANGED auxVars

\* what run_streaming raises for the way a reader ended
RaisedAs(state) == IF state = "cancel" THEN "cancelled" ELSE state

\* process.terminate() on a process asyncio has seen exit raises
\* ProcessLookupError
TerminateRaises == exitCode # Running

\* A variant of the handlers that re-raises without process.terminate(), to
\* show that C10_NoOrphan depends on the call.
HandlerTerminates_NoTerminate(kind) ==
    /\ RaiseToProducer(kind)
    /\ sm' = unmark_cancelled(sm, EngineKey)
    /\ UNCHANGED termSent

\* The handlers of run_streaming lines 491-499 (compress_conversation
\* 227-232) for the exception `kind`: terminate the process, clear the flag,
\* re-raise. When terminate raises, ProcessLookupError leaves the handler
\* instead and the flag is not cleared.
HandlerTerminates(kind) ==
    IF TerminateRaises
    THEN /\ RaiseToProducer("lookup")
         /\ UNCHANGED <<termSent, sm>>
    ELSE /\ RaiseToProducer(kind)
         /\ termSent' = TRUE
         /\ sm' = unmark_cancelled(sm, EngineKey)

\* gather propagates a reader's exception to the handlers; the other reader
\* is not cancelled by gather
GatherRaise ==
    /\ pc = "e_gather"
    /\ \E r \in Readers :
          /\ rd[r] \in {"cancel", "hang", "error"}
          /\ HandlerTerminates(RaisedAs(rd[r]))
    /\ UNCHANGED <<chat, cancels, modelIdx, wf, consumerClosed, producerDied,
                   inv, result, spawns, attemptLog, rd, nRead, procSpawned, pOut,
                   pErr, exitCode, bufVars, sinkVars, histVars>>
    /\ UNCHANGED auxVars

\* line 490 (226): await process.wait(), inside the try, with no timeout
WaitExit ==
    /\ pc = "e_wait"
    /\ exitCode # Running
    /\ pc' = "e_wait2"
    /\ UNCHANGED <<smVars, modelIdx, wf, queue, consumerClosed, producerDied,
                   engineVars, procVars, bufVars, sinkVars, histVars>>
    /\ UNCHANGED auxVars

\* leading and trailing whitespace chunks removed (str.strip)
Strip(buf) ==
    IF ~HasText(buf)
    THEN <<>>
    ELSE LET first == CHOOSE i \in 1..Len(buf) :
                         /\ buf[i].k # "ws"
                         /\ \A j \in 1..(i - 1) : buf[j].k = "ws"
             last == CHOOSE i \in 1..Len(buf) :
                         /\ buf[i].k # "ws"
                         /\ \A j \in (i + 1)..Len(buf) : buf[j].k = "ws"
         IN SubSeq(buf, first, last)

\* A variant of the guard that compares the buffer itself with "", without
\* strip(), to show that C7_EmptyOutputGuard depends on the strip.
EmptyOutputGuard_NoStrip(tokens, buf) == tokens = 0 /\ buf = <<>>

\* line 525: the empty-output guard
EmptyOutputGuard(tokens, buf) == tokens = 0 /\ ~HasText(buf)

\* lines 511-515 (243-247): the rotation decision
WantsRotation(code, err) == code # 0 /\ is_rate_limit_error(err)

\* _detect_question finds a line only in output that has text
QuestionChoices(out) == IF out = <<>> THEN {FALSE} ELSE BOOLEAN

\* run_streaming lines 511-555 and, on return, _execute_streaming 245-248 and
\* _produce_code_events 140-154 up to the suspension in _emit(StateChanged)
DecideStream ==
    LET rl == WantsRotation(exitCode, error_output)
        rot == rotate_model(modelIdx)
        clean == Strip(output_buffer)
    IN /\ attemptLog' = Append(attemptLog,
                               [code |-> exitCode, rl |-> is_rate_limit_error(error_output)])
       /\ modelIdx' = (IF rl THEN rot.idx ELSE modelIdx)
       /\ IF rl /\ rot.ok
          THEN /\ pc' = "e_spawn"
               /\ UNCHANGED <<queue, outcome, result, sm>>
          ELSE IF EmptyOutputGuard(token_count, output_buffer)
               THEN /\ RaiseToProducer("empty")
                    /\ UNCHANGED <<result, sm>>
               ELSE \E q \in QuestionChoices(clean) :
                       /\ result' = [output |-> clean, tokens |-> token_count,
                                     question |-> q]
                       /\ outcome' = "returned"
                       /\ sm' = (IF q THEN get_or_create_session(sm, EngineKey) ELSE sm)
                       /\ queue' = queue
                            \o (IF ~had_content /\ clean # <<>>
                                THEN <<ContentDelta("result", current_stage)>> ELSE <<>>)
                            \o (IF q THEN <<TaskInteraction("coding")>> ELSE <<>>)
                       /\ pc' = "p_exec_sc"

\* compress_conversation lines 243-250 and, on return, _produce_code_events
\* 108-135 up to the suspension in _emit(StateChanged(CODING))
DecideCompress ==
    LET rl == WantsRotation(exitCode, error_output)
        rot == rotate_model(modelIdx)
    IN /\ attemptLog' = Append(attemptLog,
                               [code |-> exitCode, rl |-> is_rate_limit_error(error_output)])
       /\ modelIdx' = (IF rl THEN rot.idx ELSE modelIdx)
       /\ sm' = sm
       /\ IF rl /\ rot.ok
          THEN /\ pc' = "e_spawn"
               /\ UNCHANGED <<queue, outcome, result>>
          ELSE /\ result' = [output |-> Strip(output_buffer), tokens |-> 0,
                             question |-> FALSE]
               /\ outcome' = "returned"
               /\ queue' = queue
               /\ pc' = "p_mid"

\* lines 503-507 (236-239): wait_for(process.wait(), 10.0); on timeout the
\* process is terminated and run_streaming raises (compress_conversation goes
\* on); then the decision
WaitExitBounded ==
    /\ pc = "e_wait2"
    /\ termSent' = (termSent \/ exitCode = Running)
    /\ IF inv = "stream"
       THEN IF exitCode = Running
            THEN /\ RaiseToProducer("noexit")
                 /\ UNCHANGED <<modelIdx, attemptLog, result, sm>>
            ELSE DecideStream
       ELSE DecideCompress
    /\ UNCHANGED <<chat, cancels, wf, consumerClosed, producerDied, inv,
                   spawns, rd, nRead, procSpawned, pOut, pErr, exitCode, bufVars,
                   sinkVars, histVars>>
    /\ UNCHANGED auxVars

\* ----------------------------------------------- the consumer goes away

\* current_state of _produce_code_events at each of its own suspension points
ProducerStateAt(p) ==
    CASE p = "p_window" -> "transcribing"
      [] p \in {"p_think", "p_call_compress"} -> "thinking"
      [] p \in {"p_mid", "p_call_stream"} -> "coding"
      [] OTHER -> "executing"

\* stream_code_workflow's finally cancels the producer task while it is
\* suspended in _produce_code_events itself: the CancelledError handler runs
ProducerCancelled ==
    /\ wf = "code"
    /\ pc \in {"p_window", "p_think", "p_call_compress", "p_mid", "p_call_stream",
               "p_exec_sc"}
    /\ consumerClosed' = TRUE
    /\ queue' = queue \o <<ProcessingFailed(ProducerStateAt(pc)), Failed, Sentinel>>
    /\ pc' = "done"
    /\ UNCHANGED <<smVars, modelIdx, wf, producerDied, engineVars, procVars,
                   bufVars, sinkVars, histVars>>
    /\ UNCHANGED auxVars

\* ... while it is suspended inside the engine: in gather or the first
\* process.wait() the inner handler terminates the process and clears the
\* flag; in create_subprocess_exec or the bounded wait only the outer handler
\* (lines 563-565) runs
EngineCancelled ==
    /\ wf = "code"
    /\ pc \in {"e_spawn", "e_gather", "e_wait", "e_wait2"}
    /\ consumerClosed' = TRUE
    /\ rd' = [r \in Readers |->
                 IF pc = "e_gather" /\ rd[r] = "read" THEN "cancelled" ELSE rd[r]]
    /\ IF pc \in {"e_gather", "e_wait"}
       THEN HandlerTerminates("taskcancel")
       ELSE /\ RaiseToProducer("taskcancel")
            /\ UNCHANGED <<termSent, sm>>
    /\ UNCHANGED <<chat, cancels, modelIdx, wf, producerDied, inv, result,
                   spawns, attemptLog, nRead, procSpawned, pOut, pErr, exitCode,
                   bufVars, sinkVars, histVars>>
    /\ UNCHANGED auxVars

\* -------------------------------------------------------------- brainstorm

\* stream_brainstorm creates the producer task
StartBrainstorm ==
    /\ pc = "idle"
    /\ wf' = "brainstorm"
    /\ queue' = <<>>
    /\ pc' = "b_start"
    /\ UNCHANGED <<smVars, modelIdx, consumerClosed, producerDied, engineVars,
                   procVars, bufVars, sinkVars, histVars>>
    /\ UNCHANGED auxVars

\* _produce_brainstorm lines 72-78, all before its try: STARTED and
\* StateChanged(THINKING) are put (this _emit does not suspend),
\* get_conversation_window creates the chat's session, and line 78 calls
\* session_manager.format_session_history_for_prompt, which SessionManager
\* does not define: AttributeError ends the task before the try is entered,
\* so neither handler nor finally runs.
BrainstormProduce ==
    /\ pc = "b_start"
    /\ queue' = <<Started, StateChanged("thinking")>>
    /\ sm' = get_or_create_session(sm, chat)
    /\ producerDied' = TRUE
    /\ pc' = "done"
    /\ UNCHANGED <<chat, cancels, modelIdx, wf, consumerClosed, engineVars,
                   procVars, bufVars, sinkVars, histVars>>
    /\ UNCHANGED auxVars

\* ------------------------------------------------------------------- Next

Next ==
    \/ CancelSession
    \/ StartCode
    \/ ProduceWindow
    \/ ProduceThinking
    \/ CallCompress
    \/ ProduceCoding
    \/ CallStream
    \/ ProduceCompleted
    \/ ProcCloseStreams
    \/ ProcExit
    \/ Spawn
    \/ \E r \in Readers : ReaderPoll(r)
    \/ \E r \in Readers : ReaderHang(r)
    \/ \E r \in Readers : ReaderEOF(r)
    \/ \E kind \in ErrKinds : ReadStderr(kind)
    \/ \E kind \in LineKinds : ReadStdoutStream(kind)
    \/ \E kind \in LineKinds : ReadStdoutCompress(kind)
    \/ ReaderCallbackFails
    \/ GatherDone
    \/ GatherRaise
    \/ WaitExit
    \/ WaitExitBounded
    \/ ProducerCancelled
    \/ EngineCancelled
    \/ StartBrainstorm
    \/ BrainstormProduce

Spec == Init /\ [][Next]_allVars

\* ------------------------------------------- hang detection, with a clock
\* read_stream_with_timeout polls readline with a 5 s timeout; on a timeout it
\* compares the clock with last_activity, which every line read from either
\* stream refreshes.  Time advances in steps of one poll, and cannot pass a
\* reader's pending timeout without that reader handling it.

PollTimeout == 5

HangThreshold == 120

HangInit ==
    /\ hNow = 0
    /\ hLast = 0
    /\ hWait = [r \in Readers |-> 0]
    /\ hRd = [r \in Readers |-> "read"]
    /\ hOpen = TRUE
    /\ hProc = "running"

HangRaised == \E r \in Readers : hRd[r] = "hang"

HangFrame == UNCHANGED <<vars, decodeVars, questionVars, hubVars, retryVars,
      asstVars,
      estVars,
      splitVars,
      deliveryVars,
      headerVars,
      sinkModelVars,
      beatVars,
      complexityVars,
      loopVars,
      sessionVars>>

\* wall-clock time passes
HangTick ==
    /\ hProc = "running"
    /\ ~HangRaised
    /\ hNow + PollTimeout <= MaxTime
    /\ \A r \in Readers : hRd[r] = "read" => (hOpen /\ hNow < hWait[r] + PollTimeout)
    /\ hNow' = hNow + PollTimeout
    /\ UNCHANGED <<hLast, hWait, hRd, hOpen, hProc>>
    /\ HangFrame

\* readline returns a line: last_activity = time.time(), next readline begins
HangReadLine(r) ==
    /\ hProc = "running"
    /\ ~HangRaised
    /\ hOpen
    /\ hRd[r] = "read"
    /\ hLast' = hNow
    /\ hWait' = [hWait EXCEPT ![r] = hNow]
    /\ UNCHANGED <<hNow, hRd, hOpen, hProc>>
    /\ HangFrame

\* wait_for times out: hang if the silence is longer than the threshold
HangPoll(r) ==
    /\ ~HangRaised
    /\ hRd[r] = "read"
    /\ hOpen
    /\ hNow = hWait[r] + PollTimeout
    /\ IF hNow - hLast > HangThreshold
       THEN /\ hRd' = [hRd EXCEPT ![r] = "hang"]
            /\ hProc' = IF hProc = "running" THEN "terminated" ELSE hProc
            /\ UNCHANGED hWait
       ELSE /\ hWait' = [hWait EXCEPT ![r] = hNow]
            /\ UNCHANGED <<hRd, hProc>>
    /\ UNCHANGED <<hNow, hLast, hOpen>>
    /\ HangFrame

\* readline returns b"": the reader's loop ends
HangEOF(r) ==
    /\ ~HangRaised
    /\ hRd[r] = "read"
    /\ ~hOpen
    /\ hRd' = [hRd EXCEPT ![r] = "done"]
    /\ UNCHANGED <<hNow, hLast, hWait, hOpen, hProc>>
    /\ HangFrame

\* the process closes stdout and stderr and keeps running
HangCloseStreams ==
    /\ hProc = "running"
    /\ hOpen
    /\ hOpen' = FALSE
    /\ UNCHANGED <<hNow, hLast, hWait, hRd, hProc>>
    /\ HangFrame

\* the process exits; its streams close with it
HangExit ==
    /\ hProc = "running"
    /\ hProc' = "exited"
    /\ hOpen' = FALSE
    /\ UNCHANGED <<hNow, hLast, hWait, hRd>>
    /\ HangFrame

HangNext ==
    \/ HangTick
    \/ \E r \in Readers : HangReadLine(r)
    \/ \E r \in Readers : HangPoll(r)
    \/ \E r \in Readers : HangEOF(r)
    \/ HangCloseStreams
    \/ HangExit

InitHang == EngineParked /\ HangInit /\ DecodeParked /\ QuestionParked /\ HubParked /\ RetryParked
    /\ AsstParked
    /\ EstParked
    /\ SplitParked
    /\ DeliveryParked
    /\ HeaderParked
    /\ SinkParked
    /\ BeatParked
    /\ ComplexityParked
    /\ LoopParked
    /\ SessionParked

SpecHang == InitHang /\ [][HangNext]_allVars

\* ------------------------------- one stdout line, from readline to result
\* A run whose stdout holds one line and whose process then exits with code
\* 0 and an empty stderr: the reader decodes the line with the provider's
\* parse_line, applies the event to the buffers, reads end-of-stream, and
\* run_streaming finishes.

DecodeInit ==
    /\ dProv \in Providers
    /\ dLine \in StdoutLines
    /\ dEv = NotParsed
    /\ dBuf = <<>>
    /\ dTok = 0
    /\ dOut = "reading"

DecodeFrame == UNCHANGED <<vars, hangVars, questionVars, hubVars, retryVars,
      asstVars,
      estVars,
      splitVars,
      deliveryVars,
      headerVars,
      sinkModelVars,
      beatVars,
      complexityVars,
      loopVars,
      sessionVars>>

\* line 369: event = assistant.parse_line(line_decoded).  An exception leaves
\* the reader and gather, and run_streaming re-raises it (lines 500-501).
DecodeParse ==
    /\ dOut = "reading"
    /\ dEv' = parse_line(dProv, dLine)
    /\ dOut' = (CASE dEv'.res = "raise" -> "raised"
                  [] dEv'.res = "none" -> "applied"
                  [] OTHER -> "parsed")
    /\ UNCHANGED <<dProv, dLine, dBuf, dTok>>
    /\ DecodeFrame

\* output_buffer += event.content, for a content that is set
AppendsContent(ev) ==
    ev.type \in {"REASONING", "TEXT", "TOOL_RESULT"} /\ Truthy(ev.content)

\* lines 375-446: the branch of the event's type
DecodeApply ==
    /\ dOut = "parsed"
    /\ dTok' = (IF dEv.type = "REASONING" THEN dTok + 1 ELSE dTok)
    /\ IF AppendsContent(dEv)
       THEN IF dEv.content.k = "str"
            THEN /\ dBuf' = Append(dBuf, dEv.content.v)
                 /\ dOut' = "applied"
            ELSE /\ dOut' = "raised"
                 /\ UNCHANGED dBuf
       ELSE /\ dOut' = "applied"
            /\ UNCHANGED dBuf
    /\ UNCHANGED <<dProv, dLine, dEv>>
    /\ DecodeFrame

\* lines 352-353, 490, 525-555: end of stream, exit code 0, the empty-output
\* guard and the result
DecodeFinish ==
    /\ dOut = "applied"
    /\ dOut' = (IF dTok = 0 /\ dBuf = <<>> THEN "empty" ELSE "result")
    /\ UNCHANGED <<dProv, dLine, dEv, dBuf, dTok>>
    /\ DecodeFrame

\* StreamingResult(output=clean_output, tokens=token_count, question=question)
DecodeResult ==
    [output |-> dBuf,
     tokens |-> dTok,
     question |-> DetectQuestion([i \in 1..Len(dBuf) |-> ChunkLine(dBuf[i], i)])]

DecodeNext ==
    \/ DecodeParse
    \/ DecodeApply
    \/ DecodeFinish

InitDecode == EngineParked /\ HangParked /\ DecodeInit /\ QuestionParked /\ HubParked /\ RetryParked
    /\ AsstParked
    /\ EstParked
    /\ SplitParked
    /\ DeliveryParked
    /\ HeaderParked
    /\ SinkParked
    /\ BeatParked
    /\ ComplexityParked
    /\ LoopParked
    /\ SessionParked

SpecDecode == InitDecode /\ [][DecodeNext]_allVars

\* ------------------------------------------ finishing: _detect_question
\* run_streaming's last step on a finished output: clean_output is the
\* stripped buffer, and question is what _detect_question finds in it.

\* the lines an output is made of: blank, a plain sentence, a question of
\* exactly 10 characters, a question of 11, and an indented question of 11
LineShapes ==
    {TextLine(0, 0, FALSE, 0), TextLine(0, QuestionMinLen + 1, FALSE, 0),
     TextLine(0, QuestionMinLen, TRUE, 0), TextLine(0, QuestionMinLen + 1, TRUE, 0),
     TextLine(1, QuestionMinLen + 1, TRUE, 0)}

QuestionFrame == UNCHANGED <<vars, hangVars, decodeVars, hubVars, retryVars,
      asstVars,
      estVars,
      splitVars,
      deliveryVars,
      headerVars,
      sinkModelVars,
      beatVars,
      complexityVars,
      loopVars,
      sessionVars>>

QuestionInit ==
    /\ qText = <<>>
    /\ qRes = [done |-> FALSE, clean |-> <<>>, question |-> EmptyLine]

\* the run appends one more line to output_buffer
QuestionWrite(shape) ==
    /\ ~qRes.done
    /\ Len(qText) < MaxTextLines
    /\ qText' = Append(qText, [shape EXCEPT !.n = Len(qText) + 1])
    /\ UNCHANGED qRes
    /\ QuestionFrame

\* lines 538-539: clean_output = strip_ansi(output_buffer.strip());
\* question = self._detect_question(clean_output)
QuestionFinish ==
    /\ ~qRes.done
    /\ qRes' = [done |-> TRUE,
                clean |-> StripText(qText),
                question |-> DetectQuestion(StripText(qText))]
    /\ UNCHANGED qText
    /\ QuestionFrame

QuestionNext ==
    \/ \E shape \in LineShapes : QuestionWrite(shape)
    \/ QuestionFinish

InitQuestion == EngineParked /\ HangParked /\ DecodeParked /\ QuestionInit /\ HubParked /\ RetryParked
    /\ AsstParked
    /\ EstParked
    /\ SplitParked
    /\ DeliveryParked
    /\ HeaderParked
    /\ SinkParked
    /\ BeatParked
    /\ ComplexityParked
    /\ LoopParked
    /\ SessionParked

SpecQuestion == InitQuestion /\ [][QuestionNext]_allVars

\* -------------------------------------------------------- ObservabilityHub
\* The hub, its publisher and the server's subscribers run on one event loop.
\* subscribe and unsubscribe do not suspend.  publish suspends nowhere
\* either: its lock is only ever held across `queues = list(...)`, so it is
\* free whenever a task asks for it and `async with` takes it at once.  Each
\* call is therefore one step, and tasks interleave between calls.

HubFrame == UNCHANGED <<vars, hangVars, decodeVars, questionVars, retryVars,
      asstVars,
      estVars,
      splitVars,
      deliveryVars,
      headerVars,
      sinkModelVars,
      beatVars,
      complexityVars,
      loopVars,
      sessionVars>>

\* asyncio.Queue.full()
QueueFull(q) == MaxQueueSize > 0 /\ Len(q) >= MaxQueueSize

\* A variant of publish's body for one queue that leaves a full queue as it
\* is, to show that C16_PublishDropsOldest depends on the oldest event being
\* dropped.
PublishTo_KeepOldest(q, update) ==
    IF ~QueueFull(q) THEN Append(q, update) ELSE q

\* publish, for one queue: put_nowait; on QueueFull get_nowait (QueueEmpty
\* ignored) and put_nowait again (QueueFull ignored)
PublishTo(q, update) ==
    IF ~QueueFull(q)
    THEN Append(q, update)
    ELSE LET room == IF q # <<>> THEN Tail(q) ELSE q
         IN IF ~QueueFull(room) THEN Append(room, update) ELSE room

\* a publish that gives up at the first full queue: the queues with room get
\* nothing
PublishAll_StopsAtFull(qs, subs, update) ==
    [q \in QueueIds |->
        IF q \in subs /\ ((\E r \in subs : QueueFull(qs[r])) => QueueFull(qs[q]))
        THEN PublishTo(qs[q], update) ELSE qs[q]]

\* publish: `for queue in queues`, each queue on its own
PublishAll(qs, subs, update) ==
    [q \in QueueIds |-> IF q \in subs THEN PublishTo(qs[q], update) ELSE qs[q]]

\* A variant of unsubscribe that leaves the set as it is, to show that
\* C17_SubscribeSafe depends on the discard.
Discard_Nothing(subs, q) == subs

\* unsubscribe: self._subscribers.discard(queue)
Discard(subs, q) == subs \ {q}

\* subscribe(): a new queue, added to the set
HubSubscribe(q) ==
    /\ q \notin hubSubs \cup hubGone
    /\ hubSubs' = hubSubs \cup {q}
    /\ hubQ' = [hubQ EXCEPT ![q] = <<>>]
    /\ hubLast' = [hubLast EXCEPT !.fresh = FALSE]
    /\ hubMark' = [hubMark EXCEPT ![q] = hubNext - 1]
    /\ UNCHANGED <<hubGone, hubNext>>
    /\ HubFrame

\* the server's generator ends: unsubscribe(queue)
HubUnsubscribe(q) ==
    /\ q \in hubSubs
    /\ q \notin hubGone
    /\ hubSubs' = Discard(hubSubs, q)
    /\ hubGone' = hubGone \cup {q}
    /\ hubLast' = [hubLast EXCEPT !.fresh = FALSE]
    /\ hubMark' = [hubMark EXCEPT ![q] = 0]
    /\ UNCHANGED <<hubQ, hubNext>>
    /\ HubFrame

\* the server's generator takes an event: await queue.get()
HubGet(q) ==
    /\ q \in hubSubs
    /\ hubQ[q] # <<>>
    /\ hubQ' = [hubQ EXCEPT ![q] = Tail(hubQ[q])]
    /\ hubLast' = [hubLast EXCEPT !.fresh = FALSE]
    /\ hubMark' = [hubMark EXCEPT ![q] = Head(hubQ[q])]
    /\ UNCHANGED <<hubSubs, hubGone, hubNext>>
    /\ HubFrame

\* publish(update)
HubPublish ==
    /\ hubNext <= MaxPublishes
    /\ hubQ' = PublishAll(hubQ, hubSubs, hubNext)
    /\ hubNext' = hubNext + 1
    /\ hubLast' = [ev |-> hubNext, subs |-> hubSubs, gone |-> hubGone,
                   before |-> hubQ, fresh |-> TRUE]
    /\ UNCHANGED <<hubSubs, hubGone, hubMark>>
    /\ HubFrame

HubNext ==
    \/ \E q \in QueueIds : HubSubscribe(q)
    \/ \E q \in QueueIds : HubUnsubscribe(q)
    \/ \E q \in QueueIds : HubGet(q)
    \/ HubPublish

InitHub == EngineParked /\ HangParked /\ DecodeParked /\ QuestionParked /\ HubInit /\ RetryParked
    /\ AsstParked
    /\ EstParked
    /\ SplitParked
    /\ DeliveryParked
    /\ HeaderParked
    /\ SinkParked
    /\ BeatParked
    /\ ComplexityParked
    /\ LoopParked
    /\ SessionParked

SpecHub == InitHub /\ [][HubNext]_allVars

\* ------------------------------------- attempts, readers and the heartbeat
\* One run_streaming call on its normal path: each attempt spawns a process,
\* starts the heartbeat task and gathers the two readers; when both streams
\* have ended and the process has exited, the heartbeat is cancelled, and a
\* rate-limited exit starts the next attempt when the provider can rotate.
\* rLog counts, per attempt of the task that made it, every stream event
\* handed to event_sink and every payload the heartbeat handed to
\* progress_callback, and notes whether any of them was handed over after a
\* later attempt's process had been spawned, whether a payload was handed
\* over after its attempt's process had exited, and whether one was after
\* run_streaming had returned.

RetryFrame == UNCHANGED <<vars, hangVars, decodeVars, questionVars, hubVars,
      asstVars,
      estVars,
      splitVars,
      deliveryVars,
      headerVars,
      sinkModelVars,
      beatVars,
      complexityVars,
      loopVars,
      sessionVars>>

\* the attempt whose process was spawned last
LastSpawned == IF rPc = "spawn" THEN rAttempt - 1 ELSE rAttempt

\* the log after attempt a's task has handed an event or a payload over
LogAdd(a, kind) ==
    [rLog EXCEPT ![kind][a] = @ + 1,
                 !.stale = @ \/ a < LastSpawned,
                 !.exited = @ \/ (kind = "beat" /\ ~(a = rAttempt /\ rProc = "running")),
                 !.returned = @ \/ (kind = "beat" /\ rPc = "done")]

\* A variant of task.cancel() that does nothing, to show that
\* C19_AttemptsDoNotInterleave depends on the heartbeat being cancelled.
CancelTask_Nothing(task) == task

\* task.cancel(): a task that has not finished gets CancelledError at the
\* await it is suspended in
CancelTask(task) == IF task \in {"none", "ended"} THEN task ELSE "cancelled"

\* lines 298-304, 483: the process is spawned and the heartbeat task created
RetrySpawn ==
    /\ rPc = "spawn"
    /\ rProc' = "running"
    /\ rRd' = [r \in Readers |-> "read"]
    /\ rHb' = [rHb EXCEPT ![rAttempt] = "check"]
    /\ rPc' = "gather"
    /\ UNCHANGED <<rAttempt, rLog>>
    /\ RetryFrame

\* the stdout reader reads a line: event_sink(event), then emit_progress
RetryReadStdout ==
    /\ rPc = "gather"
    /\ rRd["out"] = "read"
    /\ rProc = "running"
    /\ rLog.event[rAttempt] < MaxAttemptLines
    /\ rLog' = LogAdd(rAttempt, "event")
    /\ UNCHANGED <<rPc, rAttempt, rProc, rRd, rHb>>
    /\ RetryFrame

\* the process exits, with a rate-limit error on stderr or with code 0
RetryProcExit(how) ==
    /\ rProc = "running"
    /\ rProc' = how
    /\ UNCHANGED <<rPc, rAttempt, rRd, rHb, rLog>>
    /\ RetryFrame

\* a reader reads end-of-stream
RetryEOF(r) ==
    /\ rPc = "gather"
    /\ rRd[r] = "read"
    /\ rProc # "running"
    /\ rRd' = [rRd EXCEPT ![r] = "done"]
    /\ UNCHANGED <<rPc, rAttempt, rProc, rHb, rLog>>
    /\ RetryFrame

\* heartbeat, line 463: `while process.returncode is None`, where process is
\* the variable of run_streaming, whichever attempt has last assigned it
RetryBeatCheck(a) ==
    /\ rHb[a] = "check"
    /\ rHb' = [rHb EXCEPT ![a] = IF rProc = "running" THEN "sleep" ELSE "ended"]
    /\ UNCHANGED <<rPc, rAttempt, rProc, rRd, rLog>>
    /\ RetryFrame

\* heartbeat, lines 464-478: the sleep is over, progress_callback(payload)
RetryBeatEmit(a) ==
    /\ rHb[a] = "sleep"
    /\ rLog.beat[a] < MaxBeats
    /\ rLog' = LogAdd(a, "beat")
    /\ rHb' = [rHb EXCEPT ![a] = "check"]
    /\ UNCHANGED <<rPc, rAttempt, rProc, rRd>>
    /\ RetryFrame

\* heartbeat, lines 479-481: CancelledError arrives, the finally block runs
RetryBeatUnwinds(a) ==
    /\ rHb[a] = "cancelled"
    /\ rHb' = [rHb EXCEPT ![a] = "ended"]
    /\ UNCHANGED <<rPc, rAttempt, rProc, rRd, rLog>>
    /\ RetryFrame

\* lines 485-490: gather returns once both readers have, then process.wait()
RetryGatherDone ==
    /\ rPc = "gather"
    /\ \A r \in Readers : rRd[r] = "done"
    /\ rPc' = "wait"
    /\ UNCHANGED <<rAttempt, rProc, rRd, rHb, rLog>>
    /\ RetryFrame

\* lines 490, 501-502: process.wait() returns; finally: timer_task.cancel()
RetryWaitExit ==
    /\ rPc = "wait"
    /\ rProc # "running"
    /\ rHb' = [rHb EXCEPT ![rAttempt] = CancelTask(rHb[rAttempt])]
    /\ rPc' = "bounded"
    /\ UNCHANGED <<rAttempt, rProc, rRd, rLog>>
    /\ RetryFrame

\* lines 503-515: the bounded wait, then the rotation decision
RetryDecide ==
    /\ rPc = "bounded"
    /\ IF rProc = "exited_rl" /\ rAttempt < MaxAttempts
       THEN /\ rPc' = "spawn"
            /\ rAttempt' = rAttempt + 1
       ELSE /\ rPc' = "done"
            /\ UNCHANGED rAttempt
    /\ UNCHANGED <<rProc, rRd, rHb, rLog>>
    /\ RetryFrame

RetryNext ==
    \/ RetrySpawn
    \/ RetryReadStdout
    \/ \E how \in {"exited_rl", "exited_ok"} : RetryProcExit(how)
    \/ \E r \in Readers : RetryEOF(r)
    \/ \E a \in Attempts : RetryBeatCheck(a)
    \/ \E a \in Attempts : RetryBeatEmit(a)
    \/ \E a \in Attempts : RetryBeatUnwinds(a)
    \/ RetryGatherDone
    \/ RetryWaitExit
    \/ RetryDecide

InitRetry ==
    EngineParked /\ HangParked /\ DecodeParked /\ QuestionParked /\ HubParked /\ RetryInit
    /\ AsstParked
    /\ EstParked
    /\ SplitParked
    /\ DeliveryParked
    /\ HeaderParked
    /\ SinkParked
    /\ BeatParked
    /\ ComplexityParked
    /\ LoopParked
    /\ SessionParked

SpecRetry == InitRetry /\ [][RetryNext]_allVars

\* ------------------------------------ an assistant and its model settings
\* get_command builds the argv of one invocation from its arguments and the
\* assistant's model attributes; rotate_model and OpenCode's set_plan_model /
\* set_build_model are the methods that assign those attributes.

AsstFrame == UNCHANGED <<vars, hangVars, decodeVars, questionVars, hubVars, retryVars,
      estVars,
      splitVars,
      deliveryVars,
      headerVars,
      sinkModelVars,
      beatVars,
      complexityVars,
      loopVars,
      sessionVars>>

\* the model ids a caller passes to set_*_model
ModelIds == {DefaultPlanModel, DefaultBuildModel}
\* get_command's model argument: None or a model id
ModelArgs == {NoModel, DefaultPlanModel}
Prompts == {"p1", "p2"}
\* agent: the default "coder", the named agent "plan", the empty string
Agents == {"coder", "plan", ""}

CommandArgs(prompt, agent, model, format_json) ==
    [prompt |-> prompt, agent |-> agent, model |-> model, format_json |-> format_json]

\* GeminiAssistant.get_command
GeminiGetCommand(a, args) ==
    <<"gemini", "--model", a.current_model, "--prompt", args.prompt,
      "--accept-raw-output-risk", "--output-format">>
    \o (IF args.format_json THEN <<"stream-json">> ELSE <<"text">>)

\* OpenCodeAssistant.get_command
OpenCodeGetCommand(a, args) ==
    LET use_model == IF args.model # NoModel THEN args.model
                     ELSE IF args.agent = "plan" THEN a.plan_model
                     ELSE a.build_model
    IN <<"opencode", "run", "-m", use_model, "--thinking">>
       \o (IF args.agent # "" /\ args.agent # "coder"
           THEN <<"--agent", args.agent>> ELSE <<>>)
       \o (IF args.format_json THEN <<"--format", "json">> ELSE <<>>)
       \o <<args.prompt>>

\* CodexAssistant.get_command
CodexGetCommand(a, args) == <<"codex", "run", "--full-auto", args.prompt>>

get_command(a, args) ==
    CASE a.name = "gemini" -> GeminiGetCommand(a, args)
      [] a.name = "opencode" -> OpenCodeGetCommand(a, args)
      [] OTHER -> CodexGetCommand(a, args)

\* a get_command that would advance the model it has just used
AfterGetCommand_Advances(a) ==
    IF a.name = "gemini"
    THEN [a EXCEPT !.current_model = GeminiModels[2]]
    ELSE [a EXCEPT !.build_model = a.plan_model, !.current_model = a.plan_model]

\* the assistant as get_command leaves it: no method assigns an attribute
AfterGetCommand(a) == a

\* list.index: 0 stands for the ValueError
IndexOf(models, m) ==
    IF \E i \in 1..Len(models) : models[i] = m
    THEN CHOOSE i \in 1..Len(models) : models[i] = m
    ELSE 0

\* rotate_model of each class: GeminiAssistant's own, CodingAssistant's for
\* the classes that keep no list
RotateModel(a) ==
    IF a.name = "gemini"
    THEN LET rot == rotate_model(IndexOf(GeminiModels, a.current_model))
         IN [ok |-> rot.ok, a |-> [a EXCEPT !.current_model = GeminiModels[rot.idx]]]
    ELSE [ok |-> FALSE, a |-> a]

AsstGetCommand(args) ==
    /\ aPrev' = aNow
    /\ aNow' = [made |-> TRUE, args |-> args, argv |-> get_command(asst, args),
                before |-> asst]
    /\ asst' = AfterGetCommand(asst)
    /\ UNCHANGED <<aRot, aTrue>>
    /\ AsstFrame

AsstRotate ==
    LET rot == RotateModel(asst)
    IN /\ asst' = rot.a
       /\ aRot' = [made |-> TRUE, before |-> asst, ok |-> rot.ok]
       /\ aTrue' = aTrue + (IF rot.ok THEN 1 ELSE 0)
       /\ aPrev' = NoCall
       /\ aNow' = NoCall
       /\ AsstFrame

\* OpenCodeAssistant.set_plan_model
AsstSetPlanModel(m) ==
    /\ asst.name = "opencode"
    /\ asst' = [asst EXCEPT !.plan_model = m, !.current_model = asst.build_model]
    /\ aPrev' = NoCall
    /\ aNow' = NoCall
    /\ aRot' = NoRotation
    /\ UNCHANGED aTrue
    /\ AsstFrame

\* OpenCodeAssistant.set_build_model
AsstSetBuildModel(m) ==
    /\ asst.name = "opencode"
    /\ asst' = [asst EXCEPT !.build_model = m, !.current_model = m]
    /\ aPrev' = NoCall
    /\ aNow' = NoCall
    /\ aRot' = NoRotation
    /\ UNCHANGED aTrue
    /\ AsstFrame

AsstNext ==
    \/ \E prompt \in Prompts, agent \in Agents, model \in ModelArgs,
          format_json \in BOOLEAN :
           AsstGetCommand(CommandArgs(prompt, agent, model, format_json))
    \/ AsstRotate
    \/ \E m \in ModelIds : AsstSetPlanModel(m)
    \/ \E m \in ModelIds : AsstSetBuildModel(m)

InitAsst ==
    EngineParked /\ HangParked /\ DecodeParked /\ QuestionParked /\ HubParked /\ RetryParked
    /\ AsstInit
    /\ EstParked
    /\ SplitParked
    /\ DeliveryParked
    /\ HeaderParked
    /\ SinkParked
    /\ BeatParked
    /\ ComplexityParked
    /\ LoopParked
    /\ SessionParked

SpecAsst == InitAsst /\ [][AsstNext]_allVars

\* ------------------------------------------------------- ProgressEstimator
\* An estimator with no recorded samples: _base_durations holds the defaults.
\* Weights are in hundredths, durations in seconds; a progress value p of
\* the stage with default duration D is kept as the integer p * 100 * D, so
\* that elapsed / D needs no division.

EstFrame == UNCHANGED <<vars, hangVars, decodeVars, questionVars, hubVars, retryVars,
      asstVars,
      splitVars,
      deliveryVars,
      headerVars,
      sinkModelVars,
      beatVars,
      complexityVars,
      loopVars,
      sessionVars>>

\* _stage_weights, in insertion order
StageOrder == <<"compressing", "invoking_assistant", "thinking", "writing",
                "tool_execution", "executing_code", "summarizing">>
Stages == {StageOrder[i] : i \in 1..Len(StageOrder)}
StageWeight == [s \in Stages |->
    CASE s \in {"compressing", "invoking_assistant", "executing_code"} -> 10
      [] s \in {"thinking", "writing"} -> 25
      [] s = "tool_execution" -> 15
      [] OTHER -> 5]

\* _base_durations
BaseDuration == [s \in Stages |->
    CASE s = "compressing" -> 30
      [] s = "invoking_assistant" -> 10
      [] s \in {"thinking", "writing", "executing_code"} -> 45
      [] s = "tool_execution" -> 25
      [] OTHER -> 15]

Min(a, b) == IF a < b THEN a ELSE b

\* lines 144-148: the weights of the stages before the current one
CompletedWeight(stage) ==
    LET k == CHOOSE i \in 1..Len(StageOrder) : StageOrder[i] = stage
        Sum[i \in 0..Len(StageOrder)] ==
            IF i = 0 THEN 0 ELSE Sum[i - 1] + StageWeight[StageOrder[i]]
    IN Sum[k - 1]

\* min(1, elapsed / D), times D
StageProgress_Linear(stage, elapsed) == Min(BaseDuration[stage], elapsed)

\* lines 153-156, times D: min(1.0, elapsed / base_duration) when elapsed > 0
\* and base_duration > 0, else 0.5  (2 * this value is kept, for the half)
StageProgress(stage, elapsed) ==
    IF elapsed > 0 /\ BaseDuration[stage] > 0
    THEN 2 * Min(BaseDuration[stage], elapsed)
    ELSE BaseDuration[stage]

\* lines 158 and 169: min(1.0, completed_weight + current_weight *
\* stage_progress), times 2 * 100 * D
TotalProgress(stage, elapsed) ==
    Min(2 * 100 * BaseDuration[stage],
        2 * CompletedWeight(stage) * BaseDuration[stage]
          + StageWeight[stage] * StageProgress(stage, elapsed))

\* completed + weight * min(1, t/D), on the same scale
LinearProgress(stage, elapsed) ==
    2 * CompletedWeight(stage) * BaseDuration[stage]
      + 2 * StageWeight[stage] * StageProgress_Linear(stage, elapsed)

\* set_current_stage
EstSetStage(stage) ==
    /\ eStage' = stage
    /\ eElapsed' = 0
    /\ ePrev' = NoProgress
    /\ eLast' = NoProgress
    /\ eFirst' = (eStage = "none")
    /\ EstFrame

\* a second of wall-clock time passes
EstTick ==
    /\ eStage # "none"
    /\ eElapsed < MaxElapsed
    /\ eElapsed' = eElapsed + 1
    /\ UNCHANGED <<eStage, ePrev, eLast, eFirst>>
    /\ EstFrame

\* get_progress with a current stage
EstGetProgress ==
    /\ eStage # "none"
    /\ ePrev' = eLast
    /\ eLast' = [made |-> TRUE, elapsed |-> eElapsed,
                 progress |-> TotalProgress(eStage, eElapsed)]
    /\ UNCHANGED <<eStage, eElapsed, eFirst>>
    /\ EstFrame

EstNext ==
    \/ \E stage \in Stages : EstSetStage(stage)
    \/ EstTick
    \/ EstGetProgress

InitEst ==
    EngineParked /\ HangParked /\ DecodeParked /\ QuestionParked /\ HubParked /\ RetryParked
    /\ AsstParked /\ EstInit
    /\ SplitParked
    /\ DeliveryParked
    /\ HeaderParked
    /\ SinkParked
    /\ BeatParked
    /\ ComplexityParked
    /\ LoopParked
    /\ SessionParked

SpecEst == InitEst /\ [][EstNext]_allVars

\* ----------------------------------------------------------- split_message
\* A text is a sequence of characters; a chunk is its body and the length of
\* the " [i/n]" suffix it ends with.  One action is one iteration of the
\* while loop; the renumbering and the final filter are the last action.

SplitFrame == UNCHANGED <<vars, hangVars, decodeVars, questionVars, hubVars, retryVars,
      asstVars, estVars,
      deliveryVars,
      headerVars,
      sinkModelVars,
      beatVars,
      complexityVars,
      loopVars,
      sessionVars>>

\* the first n characters of a pattern repeated
Repeat(pattern, n) == [i \in 1..n |-> pattern[((i - 1) % Len(pattern)) + 1]]

\* a word without a split point, words, lines, sentences, paragraphs
TextPatterns == {<<"x">>, <<"x", "x", " ">>, <<"x", "\n">>, <<"x", ".", " ">>,
                 <<"x", "x", "x", "x", "x", "\n", "\n">>}

\* max_length: the smallest values that leave room for a numbering suffix
\* and a character (3800 in the source)
MaxLengths == {9, 10}

Whitespace == {" ", "\n"}

\* len(str(n))
Digits(n) == IF n < 10 THEN 1 ELSE IF n < 100 THEN 2 ELSE 3

\* len(NUMBERING_FORMAT.format(current, total)) for a total of `digits` characters
NumberingLength(current, digits) == 4 + Digits(current) + digits

\* str.rfind: the last position (from 0) at which pat occurs in s, or -1
RFind(s, pat) ==
    LET at == {i \in 0..(Len(s) - Len(pat)) : SubSeq(s, i + 1, i + Len(pat)) = pat}
    IN IF at = {} THEN -1 ELSE CHOOSE i \in at : \A j \in at : j <= i

Max(a, b) == IF a > b THEN a ELSE b

\* find_split_point; max_length * 0.7 etc. compared in tenths
find_split_point(text, max_length) ==
    IF Len(text) <= max_length THEN Len(text)
    ELSE LET search_text == SubSeq(text, 1, max_length)
             newline_pos == RFind(search_text, <<"\n">>)
             double_newline_pos == RFind(search_text, <<"\n", "\n">>)
             sentence_end == Max(RFind(search_text, <<".", " ">>),
                                 RFind(search_text, <<".", "\n">>))
         IN IF 10 * newline_pos > 7 * max_length THEN newline_pos
            ELSE IF 10 * double_newline_pos > 5 * max_length THEN double_newline_pos
            ELSE IF 10 * sentence_end > 6 * max_length THEN sentence_end + 1
            ELSE max_length

\* str.lstrip('\n '), str.rstrip(), str.strip() of a body
LStrip(s) ==
    LET keep == {i \in 1..Len(s) : s[i] \notin Whitespace}
    IN IF keep = {} THEN <<>>
       ELSE SubSeq(s, CHOOSE i \in keep : \A j \in keep : i <= j, Len(s))
RStrip(s) ==
    LET keep == {i \in 1..Len(s) : s[i] \notin Whitespace}
    IN IF keep = {} THEN <<>>
       ELSE SubSeq(s, 1, CHOOSE i \in keep : \A j \in keep : j <= i)

Chunk(body, suffix) == [body |-> body, suffix |-> suffix]
ChunkLen(c) == Len(c.body) + c.suffix

\* _renumber_chunks: the suffix the loop wrote is cut off, the body
\* right-stripped, and every chunk but the last gets " [i/total]"
RenumberChunks(chunks) ==
    [i \in 1..Len(chunks) |->
        Chunk(RStrip(chunks[i].body),
              IF i < Len(chunks) THEN NumberingLength(i, Digits(Len(chunks))) ELSE 0)]

\* c.strip() is not empty
KeepsChunk(c) == c.suffix > 0 \/ RStrip(c.body) # <<>>

SplitInit ==
    /\ spText \in {Repeat(pattern, n) : pattern \in TextPatterns, n \in 0..MaxSplitText}
    /\ spMax \in MaxLengths
    /\ spNumbering \in BOOLEAN
    /\ spPc = "call"
    /\ spRemaining = <<>>
    /\ spChunkNum = 0
    /\ spChunks = <<>>

\* lines 77-85: the empty text, the text within the limit, or the loop's set-up
SplitCall ==
    /\ spPc = "call"
    /\ IF spText = <<>>
       THEN spChunks' = <<>> /\ spPc' = "done" /\ UNCHANGED spRemaining
       ELSE IF Len(spText) <= spMax
            THEN spChunks' = <<Chunk(spText, 0)>> /\ spPc' = "done" /\ UNCHANGED spRemaining
            ELSE spChunks' = <<>> /\ spPc' = "loop" /\ spRemaining' = spText
    /\ UNCHANGED <<spText, spMax, spNumbering, spChunkNum>>
    /\ SplitFrame

\* lines 87-111: one iteration of the while loop
SplitIterate ==
    /\ spPc = "loop"
    /\ spRemaining # <<>>
    /\ LET chunk_num == spChunkNum + 1
           overhead == IF spNumbering THEN NumberingLength(chunk_num, 1) ELSE 0
           available == spMax - overhead
           fits == Len(spRemaining) <= available
           found == find_split_point(spRemaining, available)
           split_pos == IF found = 0 THEN available ELSE found
           body == IF fits THEN spRemaining ELSE SubSeq(spRemaining, 1, split_pos)
           remaining == IF fits THEN <<>>
                        ELSE LStrip(SubSeq(spRemaining, split_pos + 1, Len(spRemaining)))
           total_estimate == chunk_num + (Len(remaining) \div available) + 1
           suffix == IF spNumbering /\ remaining # <<>>
                     THEN NumberingLength(chunk_num, Digits(total_estimate)) ELSE 0
       IN /\ available > 0
          /\ spChunkNum' = chunk_num
          /\ spRemaining' = remaining
          /\ spChunks' = IF body # <<>> THEN Append(spChunks, Chunk(body, suffix))
                         ELSE spChunks
    /\ UNCHANGED <<spText, spMax, spNumbering, spPc>>
    /\ SplitFrame

\* lines 113-116: the renumbering and the filter of blank chunks
SplitReturn ==
    /\ spPc = "loop"
    /\ spRemaining = <<>>
    /\ LET chunks == IF spNumbering /\ Len(spChunks) > 1
                     THEN RenumberChunks(spChunks) ELSE spChunks
       IN spChunks' = SelectSeq(chunks, KeepsChunk)
    /\ spPc' = "done"
    /\ UNCHANGED <<spText, spMax, spNumbering, spRemaining, spChunkNum>>
    /\ SplitFrame

SplitNext ==
    \/ SplitCall
    \/ SplitIterate
    \/ SplitReturn

InitSplit ==
    EngineParked /\ HangParked /\ DecodeParked /\ QuestionParked /\ HubParked /\ RetryParked
    /\ AsstParked /\ EstParked /\ SplitInit
    /\ DeliveryParked
    /\ HeaderParked
    /\ SinkParked
    /\ BeatParked
    /\ ComplexityParked
    /\ LoopParked
    /\ SessionParked

SpecSplit == InitSplit /\ [][SplitNext]_allVars

\* ------------------------------- the delivery adapter's consumer loop
\* consume_domain_events handles one event of the stream per action.  The
\* bot's send_message succeeds or raises (after send_message's one retry);
\* _edit_with_retry catches every exception and returns a bool, so an edit
\* never raises.  A message sent gets a fresh message_id.

DeliveryFrame == UNCHANGED <<vars, hangVars, decodeVars, questionVars, hubVars, retryVars,
      asstVars, estVars, splitVars,
      headerVars,
      sinkModelVars,
      beatVars,
      complexityVars,
      loopVars,
      sessionVars>>

DeliveryEvent(t, arg) == [t |-> t, arg |-> arg]

\* ContentDelta.text: "", whitespace only, a text of one chunk, a text that
\* split_message cuts in two
ContentTexts == {"empty", "ws", "short", "long"}

\* ProgressUpdate: only the required stage given, or every optional field set
DeliveryEvents ==
    {DeliveryEvent("LifecycleEvent", s) : s \in {"started", "completed", "failed"}}
    \cup {DeliveryEvent("ProcessingFailed", "error"), DeliveryEvent("StateChanged", "coding"),
          DeliveryEvent("TaskInteraction", "question")}
    \cup {DeliveryEvent("ProgressUpdate", f) : f \in {"unset", "set"}}
    \cup {DeliveryEvent("ContentDelta", text) : text \in ContentTexts}

\* a variant that sends a whitespace-only text as a chunk
ContentChunks_BlankSent(text) ==
    CASE text = "empty" -> 0
      [] text = "long" -> 2
      [] OTHER -> 1

\* _send_content_chunks: the chunks it sends. `not text.strip()` returns at
\* once; split_message("") is [], and a blank chunk is skipped
ContentChunks(text) ==
    CASE text \in {"empty", "ws"} -> 0
      [] text = "short" -> 1
      [] OTHER -> 2

\* _build_progress_payload and update_progress_status: the parts of the text
\* the status bubble is edited to; every optional field is tested before use
ProgressParts(fields) ==
    IF fields = "unset"
    THEN <<"header">>
    ELSE <<"header+timer", "body", "progress", "eta", "tokens">>

\* the send_message calls a handler makes until one raises: `oks` says for
\* each call in turn whether the bot accepts it
SendsMade(n, oks) ==
    IF \E i \in 1..n : ~oks[i]
    THEN CHOOSE i \in 1..n : ~oks[i] /\ \A j \in 1..(i - 1) : oks[j]
    ELSE n
SendsAccepted(n, oks) == Cardinality({i \in 1..SendsMade(n, oks) : oks[i]})

IsFailureEvent(ev) ==
    ev.t = "ProcessingFailed" \/ (ev.t = "LifecycleEvent" /\ ev.arg = "failed")

\* an adapter whose ProcessingFailed branch forgets to set failure_reported
FailureReportedAfter_OnlyFailed(reported, ev) ==
    reported \/ (ev.t = "LifecycleEvent" /\ ev.arg = "failed")

\* failure_reported after an event: set by the ProcessingFailed branch
\* (line 160) and by the first FAILED (line 157)
FailureReportedAfter(reported, ev) == reported \/ IsFailureEvent(ev)

\* one iteration of `async for event in event_stream`
DeliverEvent(ev, oks) ==
    /\ dvPc = "loop"
    /\ dvHandled < MaxDeliveryEvents
    /\ dvHandled' = dvHandled + 1
    /\ LET hasStatus == dvStatus # 0
           \* handlers whose sends are inside contextlib.suppress(Exception)
           suppressed == ev.t = "LifecycleEvent" /\ ev.arg = "failed"
           calls ==
             CASE ev.t = "LifecycleEvent" /\ ev.arg = "started" -> 1
               [] ev.t = "LifecycleEvent" /\ ev.arg = "failed" ->
                    IF dvFailureReported THEN 0 ELSE 1
               [] ev.t = "ProcessingFailed" -> 1
               [] ev.t = "TaskInteraction" -> 1
               [] ev.t = "ContentDelta" -> ContentChunks(ev.arg)
               [] OTHER -> 0
           edits ==
             CASE ev.t = "LifecycleEvent" /\ ev.arg \in {"completed", "failed"} ->
                    IF hasStatus THEN 1 ELSE 0
               [] ev.t \in {"ProcessingFailed", "StateChanged"} ->
                    IF hasStatus THEN 1 ELSE 0
               [] ev.t = "ProgressUpdate" ->
                    IF hasStatus /\ Len(ProgressParts(ev.arg)) > 0 THEN 1 ELSE 0
               [] OTHER -> 0
           made == SendsMade(calls, oks)
           accepted == SendsAccepted(calls, oks)
           raises == ~suppressed /\ accepted < made
       IN /\ dvNextId' = dvNextId + accepted
          /\ dvPc' = IF raises THEN "raised" ELSE "loop"
          /\ dvStatus' = IF ev.t = "LifecycleEvent" /\ ev.arg = "started" /\ ~raises
                         THEN dvNextId ELSE dvStatus
          /\ dvReply' = IF ev.t = "ContentDelta" /\ ~raises /\ accepted > 0
                        THEN dvNextId + accepted - 1 ELSE dvReply
          /\ dvFailureReported' = FailureReportedAfter(dvFailureReported, ev)
          /\ dvFail' = [sends |-> dvFail.sends
                                    + (IF IsFailureEvent(ev) THEN made ELSE 0),
                        pf |-> dvFail.pf + (IF ev.t = "ProcessingFailed" THEN 1 ELSE 0),
                        failed |-> dvFail.failed
                                    + (IF ev = DeliveryEvent("LifecycleEvent", "failed")
                                       THEN 1 ELSE 0)]
          /\ dvLast' = [ev |-> ev, reply |-> dvReply, sends |-> made, edits |-> edits]
    /\ DeliveryFrame

DeliveryNext ==
    \E ev \in DeliveryEvents, oks \in [1..2 -> BOOLEAN] : DeliverEvent(ev, oks)

InitDelivery ==
    EngineParked /\ HangParked /\ DecodeParked /\ QuestionParked /\ HubParked /\ RetryParked
    /\ AsstParked /\ EstParked /\ SplitParked /\ DeliveryInit
    /\ HeaderParked
    /\ SinkParked
    /\ BeatParked
    /\ ComplexityParked
    /\ LoopParked
    /\ SessionParked

SpecDelivery == InitDelivery /\ [][DeliveryNext]_allVars

\* ------------------------------------------- the status header and stage
\* The branches of read_stream_with_timeout for one decoded stdout event
\* (lines 376-446): what they do to active_header, active_body,
\* bubble_start_time, last_event_type and the ProgressTracker's stage.
\* ProgressTracker.start_stage restarts the stage (started_at, token_count,
\* _previous_stage) whatever the current stage is.

HeaderFrame == UNCHANGED <<vars, hangVars, decodeVars, questionVars, hubVars, retryVars,
      asstVars, estVars, splitVars, deliveryVars,
      sinkModelVars,
      beatVars,
      complexityVars,
      loopVars,
      sessionVars>>

StreamEventTypes == {"reasoning", "text", "tool_use", "tool_result", "finished"}

\* the branch taken by an event of type `type`; content: event.content (for
\* TOOL_USE: the tool's input) is not empty
HeaderEvent(type, content) ==
    /\ hdBody < MaxHeaderChunks
    /\ LET changed ==
             CASE type = "reasoning" -> hdLastType # "reasoning"
               [] type = "text" -> hdLastType # "text" /\ hdLastType # "none"
               [] type = "tool_use" -> TRUE
               [] type = "tool_result" -> content
               [] OTHER -> FALSE
           starts ==
             CASE type = "reasoning" -> TRUE
               [] type = "text" -> changed
               [] type = "tool_use" -> TRUE
               [] OTHER -> FALSE
           cleared == changed /\ type \in {"reasoning", "text"}
       IN /\ hdHeader' = (IF ~changed THEN hdHeader
                          ELSE CASE type = "reasoning" -> "thinking"
                                 [] type = "text" -> "writing"
                                 [] type = "tool_use" -> "calling"
                                 [] OTHER -> "result")
          /\ hdBody' = (CASE type \in {"reasoning", "text"} ->
                               (IF cleared THEN 0 ELSE hdBody) + (IF content THEN 1 ELSE 0)
                          [] type = "tool_use" -> (IF content THEN 1 ELSE 0)
                          [] type = "tool_result" -> (IF content THEN 1 ELSE hdBody)
                          [] OTHER -> hdBody)
          /\ hdStage' = (IF ~starts THEN hdStage
                         ELSE CASE type = "reasoning" -> "thinking"
                                [] type = "text" -> "writing"
                                [] OTHER -> "tool_execution")
          /\ hdLastType' = (IF type \in {"reasoning", "tool_use", "tool_result"}
                            THEN type ELSE hdLastType)
          /\ hdStep' = [type |-> type, prev |-> hdPrev, header |-> changed,
                        cleared |-> cleared \/ (changed /\ type \in {"tool_use", "tool_result"}),
                        timer |-> changed, stage |-> starts]
    /\ hdPrev' = type
    /\ HeaderFrame

HeaderNext == \E type \in StreamEventTypes, content \in BOOLEAN : HeaderEvent(type, content)

InitHeader ==
    EngineParked /\ HangParked /\ DecodeParked /\ QuestionParked /\ HubParked /\ RetryParked
    /\ AsstParked /\ EstParked /\ SplitParked /\ DeliveryParked /\ HeaderInit
    /\ SinkParked
    /\ BeatParked
    /\ ComplexityParked
    /\ LoopParked
    /\ SessionParked

SpecHeader == InitHeader /\ [][HeaderNext]_allVars

\* ----------------------------------------- the event sink's workflow state
\* event_sink is awaited by the stdout reader for each stream event, so its
\* calls do not overlap.  It suspends in event_ledger.log_event (directly for
\* TOOL_USE, and inside _emit before a StateChanged is put); a put on the
\* queue does not suspend.  progress_sink, called from emit_progress and from
\* the heartbeat task, reads current_stage and may run at those points.

SinkFrame == UNCHANGED <<vars, hangVars, decodeVars, questionVars, hubVars, retryVars,
      asstVars, estVars, splitVars, deliveryVars, headerVars,
      beatVars,
      complexityVars,
      loopVars,
      sessionVars>>

ProgressUpdate(s) == Ev("ProgressUpdate", s, "")

\* lines 212-227: the stage the branch on the event's type leaves
BranchStage(type, stage) ==
    IF type \in {"tool_use", "text", "reasoning"} THEN SinkStage(type, stage) ELSE stage

\* a sink that would stay in EXECUTING when the tool's result arrives
ResultStage_Stays(type, stage) == stage

\* lines 233-235: a TOOL_RESULT returns to CODING
ResultStage(type, stage) == IF type = "tool_result" THEN "coding" ELSE stage

\* the stdout reader awaits event_sink(event)
SinkBegin(type, content) ==
    /\ skPc = "idle"
    /\ skHandled < MaxSinkEvents
    /\ skHandled' = skHandled + 1
    /\ skEv' = [type |-> type, content |-> content]
    /\ skPc' = "branch"
    /\ UNCHANGED <<skStage, skQ, skBeats>>
    /\ SinkFrame

\* lines 212-227: (after log_event, for TOOL_USE) the stage is compared and
\* assigned; _emit then suspends in log_event before it puts the StateChanged
SinkBranch ==
    /\ skPc = "branch"
    /\ skStage' = BranchStage(skEv.type, skStage)
    /\ skPc' = IF skStage' # skStage THEN "emit" ELSE "content"
    /\ UNCHANGED <<skEv, skQ, skHandled, skBeats>>
    /\ SinkFrame

\* _emit puts the StateChanged of the branch
SinkEmit ==
    /\ skPc = "emit"
    /\ skQ' = Append(skQ, StateChanged(skStage))
    /\ skPc' = "content"
    /\ UNCHANGED <<skStage, skEv, skHandled, skBeats>>
    /\ SinkFrame

\* lines 229-235: the ContentDelta is put if the event has content, then a
\* TOOL_RESULT moves the stage back to CODING
SinkContent ==
    /\ skPc = "content"
    /\ skQ' = IF skEv.content THEN Append(skQ, ContentDelta(skEv.type, skStage)) ELSE skQ
    /\ skStage' = ResultStage(skEv.type, skStage)
    /\ skPc' = IF skStage' # skStage THEN "emit_result" ELSE "idle"
    /\ UNCHANGED <<skEv, skHandled, skBeats>>
    /\ SinkFrame

\* _emit puts the StateChanged("Tool finished")
SinkEmitResult ==
    /\ skPc = "emit_result"
    /\ skQ' = Append(skQ, StateChanged(skStage))
    /\ skPc' = "idle"
    /\ UNCHANGED <<skStage, skEv, skHandled, skBeats>>
    /\ SinkFrame

\* progress_sink: a ProgressUpdate with the stage as it is now
SinkProgress ==
    /\ skBeats < MaxSinkBeats
    /\ skBeats' = skBeats + 1
    /\ skQ' = Append(skQ, ProgressUpdate(skStage))
    /\ UNCHANGED <<skStage, skPc, skEv, skHandled>>
    /\ SinkFrame

SinkNext ==
    \/ \E type \in StreamEventTypes, content \in BOOLEAN : SinkBegin(type, content)
    \/ SinkBranch
    \/ SinkEmit
    \/ SinkContent
    \/ SinkEmitResult
    \/ SinkProgress

InitSink ==
    EngineParked /\ HangParked /\ DecodeParked /\ QuestionParked /\ HubParked /\ RetryParked
    /\ AsstParked /\ EstParked /\ SplitParked /\ DeliveryParked /\ HeaderParked /\ SinkInit
    /\ BeatParked
    /\ ComplexityParked
    /\ LoopParked
    /\ SessionParked

SpecSink == InitSink /\ [][SinkNext]_allVars

\* --------------------------------- the heartbeat and the edit rate limit
\* One attempt of run_streaming whose process keeps running: the stdout
\* reader calls emit_progress after an event, the heartbeat task wakes every
\* 5 s and hands a payload to progress_callback, and the HeartbeatManager it
\* started wakes every 8 s and logs.  A timer that is due fires before the
\* clock moves on.

BeatFrame == UNCHANGED <<vars, hangVars, decodeVars, questionVars, hubVars, retryVars,
      asstVars, estVars, splitVars, deliveryVars, headerVars, sinkModelVars,
      complexityVars,
      loopVars,
      sessionVars>>

\* half a second passes
BeatTick ==
    /\ bNow < MaxBeatTicks
    /\ bNow < bWake
    /\ bNow < bMgrWake
    /\ bNow' = bNow + 1
    /\ UNCHANGED <<bMode, bOwned, bLastEdit, bWake, bMgrWake, bMgrLogs, bContent, bBeat>>
    /\ BeatFrame

BeatEventTypes == {"reasoning", "text", "stderr"}

\* read_stream_with_timeout, lines 354-412 (run_streaming) and 161-190
\* (compress_conversation): what one line with content does to the nonlocal
\* state
ReaderOwned(o, mode, type, now) ==
    LET seen == [o EXCEPT !.last_activity = now] IN
    IF type = "stderr" THEN [seen EXCEPT !.error_output = @ + 1]
    ELSE IF mode = "compress"
    THEN IF type = "text" THEN [seen EXCEPT !.output_buffer = @ + 1] ELSE seen
    ELSE IF type = "reasoning"
    THEN LET opened == IF o.last_event_type # "reasoning"
                       THEN [seen EXCEPT !.active_header = "Thinking...",
                                         !.active_body = 0,
                                         !.last_event_type = "reasoning"]
                       ELSE seen
         IN [opened EXCEPT !.token_count = @ + 1,
                           !.active_body = @ + 1,
                           !.output_buffer = @ + 1]
    ELSE LET opened == IF o.last_event_type \notin {"text", "none"}
                       THEN [seen EXCEPT !.active_header = "Writing answer...",
                                         !.active_body = 0]
                       ELSE seen
         IN [opened EXCEPT !.active_body = @ + 1, !.output_buffer = @ + 1]

\* what a heartbeat payload carries, lines 470-477 and 137-141
BeatPayload(o, mode, now, content) ==
    [at |-> now, content |-> content, header |-> o.active_header,
     body |-> IF mode = "stream" /\ o.active_body > 0 THEN o.active_body
              ELSE o.output_buffer,
     tokens |-> o.token_count]

\* a heartbeat that marks its wake-up as activity of the process
BeatOwnedAfter_Touches(o, now) == [o EXCEPT !.last_activity = now]

\* the nonlocal state of the readers after one turn of the heartbeat's loop,
\* lines 463-479 and 207-215: nothing is assigned
BeatOwnedAfter(o, now) == o

\* a line is read; run_streaming ends its handling with emit_progress
\* (lines 320-335), compress_conversation sets last_edit_time and then calls
\* its emit_progress, which finds the rate limit not yet over (lines 181-184,
\* 134-135)
BeatContent ==
    \E type \in BeatEventTypes :
        /\ bOwned.output_buffer + bOwned.error_output < MaxBeatEvents
        /\ bOwned' = ReaderOwned(bOwned, bMode, type, bNow)
        /\ IF type = "stderr"
           THEN UNCHANGED <<bLastEdit, bContent>>
           ELSE IF bMode = "stream"
           THEN IF bNow - bLastEdit < EditRateLimit
                THEN UNCHANGED <<bLastEdit, bContent>>
                ELSE /\ bLastEdit' = bNow
                     /\ bContent' = [at |-> bNow, beat |-> bBeat.at]
           ELSE /\ bLastEdit' = IF bNow - bLastEdit > EditRateLimit THEN bNow ELSE bLastEdit
                /\ UNCHANGED bContent
        /\ UNCHANGED <<bMode, bNow, bWake, bMgrWake, bMgrLogs, bBeat>>
        /\ BeatFrame

\* heartbeat: the sleep ends.  run_streaming, lines 463-479: the payload is
\* built and handed to progress_callback; neither the elapsed time nor
\* last_edit_time is looked at, and last_edit_time is not written.
\* compress_conversation, lines 207-215: the payload goes through
\* emit_progress and its rate limit.
BeatWake ==
    /\ bNow = bWake
    /\ bWake' = bNow + BeatSleep
    /\ bOwned' = BeatOwnedAfter(bOwned, bNow)
    /\ IF bMode = "stream"
       THEN /\ bBeat' = BeatPayload(bOwned, bMode, bNow, bContent.at)
            /\ UNCHANGED bLastEdit
       ELSE IF bNow - bLastEdit < EditRateLimit
       THEN UNCHANGED <<bBeat, bLastEdit>>
       ELSE /\ bLastEdit' = bNow
            /\ bBeat' = BeatPayload(bOwned, bMode, bNow, bContent.at)
    /\ UNCHANGED <<bMode, bNow, bMgrWake, bMgrLogs, bContent>>
    /\ BeatFrame

\* HeartbeatManager.start.heartbeat_loop: below 10 s nothing, then a log line
BeatManagerWake ==
    /\ bNow = bMgrWake
    /\ bMgrWake' = bNow + ManagerInterval
    /\ bMgrLogs' = IF bNow < MinElapsed THEN bMgrLogs ELSE bMgrLogs + 1
    /\ UNCHANGED <<bMode, bOwned, bNow, bLastEdit, bWake, bContent, bBeat>>
    /\ BeatFrame

BeatNext ==
    \/ BeatTick
    \/ BeatContent
    \/ BeatWake
    \/ BeatManagerWake

InitBeat ==
    EngineParked /\ HangParked /\ DecodeParked /\ QuestionParked /\ HubParked /\ RetryParked
    /\ AsstParked /\ EstParked /\ SplitParked /\ DeliveryParked /\ HeaderParked /\ SinkParked
    /\ BeatInit
    /\ ComplexityParked
    /\ LoopParked
    /\ SessionParked

SpecBeat == InitBeat /\ [][BeatNext]_allVars

\* ------------------------------------------------ analyze_prompt_complexity
\* A prompt is a run of whitespace-separated tokens of four kinds: a plain
\* word, a keyword of the list in line 98 (def), a file reference (a.b) and
\* a ``` fence.  What the function measures depends on how many tokens of
\* each kind there are.  Scores are in thousandths, weights in hundredths,
\* durations in seconds.

ComplexityFrame == UNCHANGED <<vars, hangVars, decodeVars, questionVars, hubVars, retryVars,
      asstVars, estVars, splitVars, deliveryVars, headerVars, sinkModelVars, beatVars,
      loopVars,
      sessionVars>>

PromptBags ==
    [plain : 0..MaxPlainWords, keyword : 0..MaxKeywords,
     file_ref : 0..MaxFileRefs, fence : 0..MaxFences]

\* len(prompt.split())
word_count(p) == p.plain + p.keyword + p.file_ref + p.fence

\* len(re.findall(r'```[\s\S]*?```', prompt)): every two fences close a block
code_blocks(p) == p.fence \div 2

\* re.search(r'\b(function|class|...)\b', prompt)
has_tech_keywords(p) == p.keyword > 0

\* len(re.findall(r'\b\w+\.\w+\b', prompt))
has_file_refs(p) == p.file_ref

\* a score whose parts are not capped
complexity_score_Uncapped(p) ==
    3 * word_count(p) + 60 * code_blocks(p)
      + (IF has_tech_keywords(p) THEN 200 ELSE 0) + 20 * has_file_refs(p)

\* lines 101-105, times 1000: min(1, words / 100) * 0.3 + min(1, blocks / 5)
\* * 0.3 + (0.2 if keywords) + min(1, refs / 10) * 0.2
complexity_score(p) ==
    3 * Min(100, word_count(p)) + 60 * Min(5, code_blocks(p))
      + (IF has_tech_keywords(p) THEN 200 ELSE 0) + 20 * Min(10, has_file_refs(p))

\* _complexity_label
complexity_label(score) ==
    IF score < 200 THEN "simple"
    ELSE IF score < 400 THEN "moderate"
    ELSE IF score < 600 THEN "complex"
    ELSE "very complex"

\* _estimate_total_duration, times 100: the sum of base * weight
estimate_total_duration ==
    LET Sum[i \in 0..Len(StageOrder)] ==
            IF i = 0 THEN 0
            ELSE Sum[i - 1] + BaseDuration[StageOrder[i]] * StageWeight[StageOrder[i]]
    IN Sum[Len(StageOrder)]

\* analyze_prompt_complexity; estimated_duration is kept times 100 * 2000:
\* total * (1 + score * 0.5)
analyze_prompt_complexity(p) ==
    LET score == complexity_score(p) IN
    [made |-> TRUE,
     word_count |-> word_count(p),
     code_blocks |-> code_blocks(p),
     has_tech_keywords |-> has_tech_keywords(p),
     file_refs |-> has_file_refs(p),
     complexity_score |-> score,
     estimated_duration |-> estimate_total_duration * (2000 + score),
     complexity_label |-> complexity_label(score)]

ComplexityAnalyze ==
    /\ cxResult' = analyze_prompt_complexity(cxPrompt)
    /\ UNCHANGED cxPrompt
    /\ ComplexityFrame

ComplexityNext == ComplexityAnalyze

InitComplexity ==
    EngineParked /\ HangParked /\ DecodeParked /\ QuestionParked /\ HubParked /\ RetryParked
    /\ AsstParked /\ EstParked /\ SplitParked /\ DeliveryParked /\ HeaderParked /\ SinkParked
    /\ BeatParked
    /\ cxPrompt \in PromptBags
    /\ cxResult = NoAnalysis
    /\ LoopParked
    /\ SessionParked

SpecComplexity == InitComplexity /\ [][ComplexityNext]_allVars

\* ------------------------------------------- _handle_brainstorm, the ending
\* What _handle_brainstorm does once the process has ended and the readers
\* have returned (message_handler.py lines 417-447), for the two things it
\* looks at: whether stderr named a missing model and whether the text
\* collected from stdout is empty after strip().

LoopFrame == UNCHANGED <<vars, hangVars, decodeVars, questionVars, hubVars, retryVars,
      asstVars, estVars, splitVars, deliveryVars, headerVars, sinkModelVars, beatVars,
      complexityVars,
      sessionVars>>

\* SessionManager.record_empty_response: the new counter and what is returned
record_empty_response(count) == [count |-> count + 1, loop |-> count + 1 >= 2]

\* lines 417-447: the counter afterwards, the message the user is shown, and
\* how often and how far the counter was raised
BrainstormEnding(count, not_found, empty) ==
    LET first == IF not_found THEN record_empty_response(count)
                 ELSE [count |-> count, loop |-> FALSE]
        second == record_empty_response(first.count)
        calls == IF not_found THEN 1 ELSE 0
    IN IF first.loop
       THEN [count |-> 0, report |-> "model not found", recorded |-> calls,
             peak |-> first.count, returned |-> <<first>>]
       ELSE IF empty
       THEN IF second.loop
            THEN [count |-> 0, report |-> "loop detected", recorded |-> calls + 1,
                  peak |-> second.count,
                  returned |-> IF not_found THEN <<first, second>> ELSE <<second>>]
            ELSE [count |-> second.count, report |-> "none", recorded |-> calls + 1,
                  peak |-> second.count,
                  returned |-> IF not_found THEN <<first, second>> ELSE <<second>>]
       ELSE [count |-> 0, report |-> "reply", recorded |-> calls, peak |-> first.count,
             returned |-> IF not_found THEN <<first>> ELSE <<>>]

\* one brainstorm invocation for a chat runs to its end
BrainstormInvoke(c, not_found, empty) ==
    LET e == BrainstormEnding(lpCount[c], not_found, empty)
        run == IF empty THEN Min(2, lpRun[c] + 1) ELSE 0
    IN /\ lpCalls < MaxInvocations
       /\ lpCalls' = lpCalls + 1
       /\ lpCount' = [lpCount EXCEPT ![c] = e.count]
       /\ lpRun' = [lpRun EXCEPT ![c] = run]
       /\ lpLast' = [made |-> TRUE, chat |-> c, not_found |-> not_found, empty |-> empty,
                     before |-> lpCount[c], run |-> run, ending |-> e]
       /\ LoopFrame

LoopNext == \E c \in ChatIds, not_found \in BOOLEAN, empty \in BOOLEAN :
                BrainstormInvoke(c, not_found, empty)

InitLoop ==
    EngineParked /\ HangParked /\ DecodeParked /\ QuestionParked /\ HubParked /\ RetryParked
    /\ AsstParked /\ EstParked /\ SplitParked /\ DeliveryParked /\ HeaderParked /\ SinkParked
    /\ BeatParked /\ ComplexityParked
    /\ LoopInit
    /\ SessionParked

SpecLoop == InitLoop /\ [][LoopNext]_allVars

\* ------------------------------------- SessionManager: the conversation
\* The SessionState of one chat.  Every SessionManager method starts with
\* get_or_create_session, so the state of a chat nobody has touched is the
\* one _create_session would make.  The #code producer is followed through
\* the points where it reads or writes the conversation; between them the
\* chat's other handlers run.  Its failures and the events of the two
\* assistant runs are left to the model of the engine.

SessionFrame == UNCHANGED <<vars, hangVars, decodeVars, questionVars, hubVars, retryVars,
      asstVars, estVars, splitVars, deliveryVars, headerVars, sinkModelVars, beatVars,
      complexityVars, loopVars>>

HistoryEntry(role, content, solo) == [role |-> role, content |-> content, solo |-> solo]

\* what the chat's handlers add
MessageArgs ==
    {HistoryEntry("user", "a", FALSE), HistoryEntry("user", "a", TRUE),
     HistoryEntry("user", "b", FALSE), HistoryEntry("assistant", "a", FALSE)}

IsPrefix(s, t) == Len(s) <= Len(t) /\ SubSeq(t, 1, Len(s)) = s

\* an add_message that appends whatever it is given
add_message_Always(st, e) == [st EXCEPT !.history = Append(@, e)]

\* add_message: an entry equal to the last one in role, content and solo is
\* skipped
add_message(st, e) ==
    IF st.history # <<>> /\ st.history[Len(st.history)] = e
    THEN st
    ELSE [st EXCEPT !.history = Append(@, e)]

\* get_conversation_window: history[window_start:]
get_conversation_window(st) ==
    IF st.window_start >= Len(st.history) THEN <<>>
    ELSE SubSeq(st.history, st.window_start + 1, Len(st.history))

\* advance_window
advance_window(st) == [st EXCEPT !.window_start = Len(st.history)]

\* clear_conversation
clear_conversation(st) ==
    [st EXCEPT !.history = <<>>, !.window_start = 0,
               !.pending_question = "none", !.cancelled = FALSE]

\* set_pending_question
set_pending_question(st, question) == [st EXCEPT !.pending_question = question]

\* a producer that goes on to compress whatever the window holds
WindowIsEmpty_Never(window) == FALSE

\* _produce_code_events line 96: `if not window`
WindowIsEmpty(window) == window = <<>>

Called(op, after) ==
    /\ ssState' = after
    /\ ssLast' = [op |-> op, kept |-> IsPrefix(ssState.history, after.history),
                  same |-> after = ssState]

SessAddMessage(e) ==
    /\ Len(ssState.history) < MaxHistory
    /\ Called("add_message", add_message(ssState, e))
    /\ UNCHANGED ssWf
    /\ SessionFrame

SessAdvanceWindow ==
    /\ Called("advance_window", advance_window(ssState))
    /\ UNCHANGED ssWf
    /\ SessionFrame

SessClearConversation ==
    /\ Called("clear_conversation", clear_conversation(ssState))
    /\ UNCHANGED ssWf
    /\ SessionFrame

SessCancelSession ==
    /\ Called("cancel_session", [ssState EXCEPT !.cancelled = TRUE])
    /\ UNCHANGED ssWf
    /\ SessionFrame

SessUnmarkCancelled ==
    /\ Called("unmark_cancelled", [ssState EXCEPT !.cancelled = FALSE])
    /\ UNCHANGED ssWf
    /\ SessionFrame

SessSetPendingQuestion ==
    /\ Called("set_pending_question", set_pending_question(ssState, "question"))
    /\ UNCHANGED ssWf
    /\ SessionFrame

\* stream_code_workflow starts the producer: STARTED is put, _emit suspends
\* in log_event before it puts StateChanged(TRANSCRIBING)
SessWfStart ==
    /\ ssWf.pc = "idle"
    /\ ssWf' = [NoCodeWorkflow EXCEPT !.pc = "p_window", !.emitted = <<Started>>]
    /\ UNCHANGED <<ssState, ssLast>>
    /\ SessionFrame

\* lines 93-103: StateChanged(TRANSCRIBING), the window is read; if it is
\* empty ProcessingFailed and FAILED follow and the producer returns
SessWfWindow ==
    /\ ssWf.pc = "p_window"
    /\ LET window == get_conversation_window(ssState)
           read == [ssWf EXCEPT !.window = IF window = <<>> THEN "empty" ELSE "held",
                                !.emitted = Append(@, StateChanged("transcribing"))]
       IN ssWf' = IF WindowIsEmpty(window)
                  THEN [read EXCEPT !.pc = "done",
                                    !.emitted = @ \o <<ProcessingFailed("transcribing"), Failed>>]
                  ELSE [read EXCEPT !.pc = "p_compress",
                                    !.emitted = Append(@, StateChanged("thinking"))]
    /\ UNCHANGED <<ssState, ssLast>>
    /\ SessionFrame

\* lines 106-137: the compression process has run; advance_window,
\* add_message(user_text), the complexity update, StateChanged(CODING)
SessWfCompressed ==
    /\ ssWf.pc = "p_compress"
    /\ Len(ssState.history) < MaxHistory
    /\ Called("add_message",
              add_message(advance_window(ssState), HistoryEntry("user", "b", FALSE)))
    /\ ssWf' = [ssWf EXCEPT !.pc = "p_stream", !.spawns = @ + 1, !.writes = @ + 2,
                            !.emitted = @ \o <<ProgressUpdate("thinking"),
                                               StateChanged("coding")>>]
    /\ SessionFrame

\* lines 139-156: the coding process has run; add_message(result.output),
\* StateChanged(EXECUTING), COMPLETED
SessWfStreamed ==
    /\ ssWf.pc = "p_stream"
    /\ Len(ssState.history) < MaxHistory
    /\ Called("add_message", add_message(ssState, HistoryEntry("assistant", "a", FALSE)))
    /\ ssWf' = [ssWf EXCEPT !.pc = "done", !.spawns = @ + 1, !.writes = @ + 1,
                            !.emitted = @ \o <<StateChanged("executing"), Completed>>]
    /\ SessionFrame

\* the next #code request of the chat
SessWfAgain ==
    /\ ssWf.pc = "done"
    /\ ssWf' = NoCodeWorkflow
    /\ UNCHANGED <<ssState, ssLast>>
    /\ SessionFrame

SessionNext ==
    \/ \E e \in MessageArgs : SessAddMessage(e)
    \/ SessAdvanceWindow
    \/ SessClearConversation
    \/ SessCancelSession
    \/ SessUnmarkCancelled
    \/ SessSetPendingQuestion
    \/ SessWfStart
    \/ SessWfWindow
    \/ SessWfCompressed
    \/ SessWfStreamed
    \/ SessWfAgain

InitSession ==
    EngineParked /\ HangParked /\ DecodeParked /\ QuestionParked /\ HubParked /\ RetryParked
    /\ AsstParked /\ EstParked /\ SplitParked /\ DeliveryParked /\ HeaderParked /\ SinkParked
    /\ BeatParked /\ ComplexityParked /\ LoopParked
    /\ SessionInit

SpecSession == InitSession /\ [][SessionNext]_allVars

\* -------------------------------------------- what the consumer is handed

\* stream_code_workflow lines 69-74: events are yielded up to the sentinel
UpToSentinel(q) ==
    IF \E i \in 1..Len(q) : q[i] = Sentinel
    THEN SubSeq(q, 1, (CHOOSE i \in 1..Len(q) :
                          /\ q[i] = Sentinel
                          /\ \A j \in 1..(i - 1) : q[j] # Sentinel) - 1)
    ELSE q

\* A variant of _run_workflow that forwards every event of the orchestrator,
\* to show that C1_LifecycleBrackets depends on the filter.
ForwardsEvent_All(e) == TRUE

\* _run_workflow lines 137-138: the orchestrator's STARTED is not forwarded
ForwardsEvent(e) == e.t # "STARTED"

\* _run_workflow: its own STARTED and StateChanged(TRANSCRIBING), then the
\* forwarded events of stream_code_workflow; this is what
\* consume_domain_events has been handed once it has drained the queue
Delivered ==
    <<Started, StateChanged("transcribing")>>
        \o SelectSeq(UpToSentinel(queue), ForwardsEvent)

\* ---------------------------------------------------------------- claims

\* C1: in every #code workflow run the event sequence delivered to the
\* consumer begins with LifecycleEvent(STARTED) and holds no other STARTED, a
\* terminal LifecycleEvent (COMPLETED or FAILED) occurs only as its last event,
\* and once the producer has finished the sequence ends with that terminal
\* event, which the sentinel follows on the queue.
C1_LifecycleBrackets ==
    wf = "code" =>
       LET d == Delivered
       IN /\ d[1] = Started
          /\ \A i \in 2..Len(d) : d[i].t # "STARTED"
          /\ \A i \in 1..(Len(d) - 1) : ~IsTerminal(d[i])
          /\ pc = "done" => /\ IsTerminal(d[Len(d)])
                            /\ \E i \in 1..Len(queue) : queue[i] = Sentinel

\* a successful run whose consumer stayed: content was delivered between
\* STARTED and COMPLETED
C1_Witness ==
    /\ wf = "code"
    /\ pc = "done"
    /\ ~consumerClosed
    /\ Delivered[Len(Delivered)] = Completed
    /\ \E i \in 1..Len(Delivered) : Delivered[i].t = "ContentDelta"

\* C2: when the producer of stream_code_workflow or stream_brainstorm has
\* ended, for whatever reason, the queue ends with a terminal LifecycleEvent
\* followed by the sentinel. (Fails: _produce_brainstorm dies before its try.)
C2_TerminalThenSentinel ==
    pc = "done" =>
       /\ UpToSentinel(queue) # queue
       /\ UpToSentinel(queue) # <<>>
       /\ IsTerminal(UpToSentinel(queue)[Len(UpToSentinel(queue))])

\* C3: while run_streaming waits for the exit of a process that has closed
\* both streams and is still running, a step of run_streaming itself (the
\* timeout of a bounded wait) is possible. (Fails: the first process.wait()
\* has no timeout.)
C3_BoundedExitWait ==
    (/\ inv = "stream"
     /\ pc \in {"e_wait", "e_wait2"}
     /\ pOut = "closed" /\ pErr = "closed"
     /\ exitCode = Running)
       => ENABLED (WaitExit \/ WaitExitBounded)

\* C4: when run_streaming has decided its last attempt and every attempt
\* exited non-zero with rate-limit stderr, it has spawned exactly NumModels
\* processes and has raised, not returned a StreamingResult. (Fails: the last
\* attempt falls through to the result.)
C4_RotationBound ==
    (/\ inv = "stream"
     /\ outcome \in {"returned", "empty"}
     /\ Len(attemptLog) = spawns
     /\ \A i \in 1..Len(attemptLog) : attemptLog[i].code # 0 /\ attemptLog[i].rl)
       => (spawns = NumModels /\ outcome = "empty")

\* C5: the StreamingResult run_streaming returns holds output chunks of the
\* last attempt only, its token count is the number of reasoning events of
\* the last attempt, and the stderr held at that point is the last attempt's.
C5_LastAttemptOnly ==
    (inv = "stream" /\ outcome = "returned") =>
       /\ \A i \in 1..Len(result.output) : result.output[i].a = spawns
       /\ result.tokens =
             Cardinality({i \in 1..Len(output_buffer) :
                             /\ output_buffer[i].a = spawns
                             /\ output_buffer[i].k = "reasoning"})
       /\ \A i \in 1..Len(error_output) : error_output[i].a = spawns

\* a result after a rotation whose first attempt had written a reasoning
\* event to stdout: the result has output and no token
C5_Witness ==
    /\ inv = "stream"
    /\ outcome = "returned"
    /\ spawns = 2
    /\ \E i \in 1..Len(queue) : queue[i] = ContentDelta("reasoning", "coding")
    /\ result.tokens = 0
    /\ result.output # <<>>

\* C6: a StreamingResult is returned only when the last attempt exited with
\* code 0. (Fails: a non-zero exit without rotation falls through to the
\* result.)
C6_NonZeroExitFails ==
    (inv = "stream" /\ outcome = "returned") =>
       attemptLog[Len(attemptLog)].code = 0

\* C7: run_streaming returns a StreamingResult only when token_count > 0 or
\* the output buffer has non-whitespace text, and after an exit with code 0
\* with no reasoning event and only whitespace output it has raised and
\* returned nothing.
C7_EmptyOutputGuard ==
    /\ (inv = "stream" /\ outcome = "returned")
          => (token_count > 0 \/ HasText(output_buffer))
    /\ (/\ inv = "stream"
        /\ spawns > 0
        /\ Len(attemptLog) = spawns
        /\ attemptLog[Len(attemptLog)].code = 0
        /\ token_count = 0
        /\ ~HasText(output_buffer))
          => (outcome = "empty" /\ result = NoResult)

\* exit code 0 after whitespace-only output: run_streaming raised
C7_Witness ==
    /\ inv = "stream"
    /\ outcome = "empty"
    /\ exitCode = 0
    /\ output_buffer # <<>>

\* C8: when a #code workflow has ended after a reader of run_streaming made
\* a pre-read check later than a cancel request that arrived while the
\* readers of that run_streaming ran, the sequence ends with FAILED, the process was terminated
\* or has exited, and is_cancelled(chat_id) is false. (Fails: the engine reads
\* the flag under the session id, the user sets it under the chat id.)
C8_CancelEndsFailed ==
    (/\ wf = "code"
     /\ inv = "stream"
     /\ cancelWatch = "checked"
     /\ pc = "done"
     /\ ~consumerClosed)
       => /\ UpToSentinel(queue)[Len(UpToSentinel(queue))] = Failed
          /\ ~is_cancelled(sm, chat)
          /\ (termSent \/ exitCode # Running)

\* C9: an invocation ends cancelled only if a cancel request arrived during
\* it. (Fails: compress_conversation does not clear a flag it finds set.)
C9_NoStaleCancel == outcome = "cancelled" => cancelSeen

\* C11: once run_streaming has raised to its caller and the workflow has put
\* its terminal event and the sentinel, nothing more is put on the queue: the
\* sentinel stays the last element. (Fails: gather leaves the other reader
\* running.)
C11_ReadersUnwind ==
    (wf = "code" /\ pc = "done") => queue[Len(queue)] = Sentinel

\* C10: once an invocation that spawned a process has ended, that process
\* has exited or has been sent terminate.
C10_NoOrphan ==
    (procSpawned /\ pc \notin {"e_spawn", "e_gather", "e_wait", "e_wait2"})
       => (exitCode # Running \/ termSent)

\* an invocation that ended abnormally while its process was running: the
\* process was sent terminate
C10_Witness ==
    /\ pc = "done"
    /\ outcome \in {"cancelled", "hang", "error", "taskcancel"}
    /\ exitCode = Running
    /\ termSent

\* C12: while the process runs and neither stream has delivered a line for
\* more than the 120 s threshold, a reader has raised the hang timeout by its
\* next 5 s poll (so the silence never grows beyond threshold plus one poll
\* without a hang failure and a terminated process); and a hang is raised
\* only after more than 120 s without a line.
C12_HangDetected ==
    /\ (hProc = "running" /\ ~HangRaised) => hNow - hLast <= HangThreshold + PollTimeout
    /\ HangRaised => (hNow - hLast > HangThreshold /\ hProc # "running")

\* C13: whatever the stdout line is (not JSON, JSON that is not an object, an
\* object with fields of unexpected types), parse_line of every provider
\* returns an event or nothing and never raises, a line that is not JSON
\* becomes a TEXT event holding the raw line, and the reader goes on to the
\* next read instead of ending the stream with an exception.
C13_DecodeNeverRaises ==
    /\ dEv.res # "raise"
    /\ dOut # "raised"
    /\ (dEv.res # "pending" /\ dLine.top = "nonjson")
          => dEv = StreamEvent("TEXT", JStr(dLine.raw))

\* the line of Scenario A: {"type":"text","content":"hello"}
ScenarioALine ==
    ObjectLine(JStr("text"), JAbsent, JAbsent, JStr("hello"),
               JAbsent, JAbsent, JAbsent, JAbsent)

\* the line with which each registered provider's CLI carries the text
\* "hello": {"type":"message","content":"hello"} for gemini,
\* {"type":"text","part":{"text":"hello"}} for opencode
ProviderTextLine(provider) ==
    IF provider = "gemini"
    THEN ObjectLine(JStr("message"), JAbsent, JAbsent, JStr("hello"),
                    JAbsent, JAbsent, JAbsent, JAbsent)
    ELSE ObjectLine(JStr("text"), JAbsent, JAbsent, JAbsent,
                    JObj, JStr("hello"), JAbsent, JAbsent)

DecodeEnded == dOut \in {"raised", "empty", "result"}

HelloResult == [output |-> <<"hello">>, tokens |-> 0, question |-> EmptyLine]

\* C14 as stated: for a registered provider, the run whose stdout is the one
\* line {"type":"text","content":"hello"} and whose process exits with code 0
\* returns a result with output "hello", 0 tokens and no question.
C14_ScenarioA_AsStated ==
    (dProv \in RegisteredProviders /\ dLine = ScenarioALine /\ DecodeEnded)
        => (dOut = "result" /\ DecodeResult = HelloResult)

\* C14, amended: for a registered provider, the run whose stdout is the one
\* line with which that provider carries the text "hello" (type "message"
\* with content for gemini, type "text" with part.text for opencode) and whose
\* process exits with code 0 returns a result with output "hello", 0 tokens
\* and no question; the line {"type":"text","content":"hello"} itself decodes
\* to no content with either provider, and its run ends with the empty-output
\* failure.
C14_ScenarioA ==
    /\ (dProv \in RegisteredProviders /\ dLine = ProviderTextLine(dProv) /\ DecodeEnded)
          => (dOut = "result" /\ DecodeResult = HelloResult)
    /\ (dProv \in RegisteredProviders /\ dLine = ScenarioALine /\ DecodeEnded)
          => dOut = "empty"

C14_Witness ==
    /\ dProv = "opencode"
    /\ dLine = ProviderTextLine("opencode")
    /\ dOut = "result"
    /\ DecodeResult = HelloResult

\* the positions of clean_output's last five lines that hold a question
QuestionsInWindow(clean) ==
    {i \in 1..Len(clean) : i > Len(clean) - LastLinesWindow /\ IsQuestionLine(clean[i])}

\* the same, counting only the lines that are not blank
QuestionsInNonEmptyWindow(clean) ==
    {i \in 1..Len(clean) :
        /\ IsQuestionLine(clean[i])
        /\ Cardinality({j \in i..Len(clean) : ~IsBlank(clean[j])}) <= LastLinesWindow}

Latest(S) == CHOOSE i \in S : \A j \in S : j <= i

\* C15 as stated: the question is the most recent of the last 5 non-empty
\* lines of the cleaned output that holds a "?" and is longer than 10
\* characters, blank lines not being counted among the 5, and None when there
\* is no such line; a last line that is such a question is returned verbatim
\* (here: up to the whitespace around it).
C15_DetectQuestion_AsStated ==
    qRes.done =>
        /\ IF QuestionsInNonEmptyWindow(qRes.clean) = {}
           THEN qRes.question = EmptyLine
           ELSE qRes.question.n = qRes.clean[Latest(QuestionsInNonEmptyWindow(qRes.clean))].n
        /\ (qRes.clean # <<>> /\ IsQuestionLine(qRes.clean[Len(qRes.clean)]))
              => StripLine(qRes.question) = StripLine(qRes.clean[Len(qRes.clean)])

\* C15, amended: the question is, stripped of the whitespace around it, the
\* most recent of the last 5 lines of the cleaned output, blank lines
\* counted, that holds a "?" and whose stripped text is longer than 10
\* characters, and None when none of those 5 lines is one; a last line that
\* is such a question is returned, stripped.
C15_DetectQuestion ==
    qRes.done =>
        /\ IF QuestionsInWindow(qRes.clean) = {}
           THEN qRes.question = EmptyLine
           ELSE qRes.question = StripLine(qRes.clean[Latest(QuestionsInWindow(qRes.clean))])
        /\ (qRes.clean # <<>> /\ IsQuestionLine(qRes.clean[Len(qRes.clean)]))
              => qRes.question = StripLine(qRes.clean[Len(qRes.clean)])

\* a question followed by four blank lines and a sentence is not found
C15_Witness ==
    /\ qRes.done
    /\ Len(qRes.clean) = LastLinesWindow + 1
    /\ IsQuestionLine(qRes.clean[1])
    /\ \A i \in 2..LastLinesWindow : IsBlank(qRes.clean[i])
    /\ qRes.question = EmptyLine

\* C16: publish waits for no subscriber; into each subscribed queue the event
\* is appended if there is room, and if the queue is full exactly its oldest
\* event is removed and the new one appended; so when publish returns the new
\* event is the newest element of every subscribed queue, and no queue ever
\* holds more than its maxsize events.
C16_PublishDropsOldest ==
    /\ \A q \in QueueIds : Len(hubQ[q]) <= MaxQueueSize
    /\ hubLast.fresh =>
          \A q \in hubLast.subs :
              /\ hubQ[q] # <<>>
              /\ hubQ[q][Len(hubQ[q])] = hubLast.ev
              /\ hubQ[q] = IF Len(hubLast.before[q]) < MaxQueueSize
                           THEN Append(hubLast.before[q], hubLast.ev)
                           ELSE Append(Tail(hubLast.before[q]), hubLast.ev)

\* a publish has just found a full queue and dropped its oldest event
C16_Witness ==
    /\ hubLast.fresh
    /\ \E q \in hubLast.subs :
          /\ Len(hubLast.before[q]) = MaxQueueSize
          /\ hubQ[q] = Append(Tail(hubLast.before[q]), hubLast.ev)

\* C17: however subscribe, unsubscribe and publish calls of concurrent tasks
\* interleave, a queue subscribed before a publish begins receives that
\* event, and a queue whose unsubscribe returned before the publish began
\* receives nothing from it.
C17_SubscribeSafe ==
    hubLast.fresh =>
        /\ \A q \in hubLast.subs : \E i \in 1..Len(hubQ[q]) : hubQ[q][i] = hubLast.ev
        /\ \A q \in hubLast.gone : hubQ[q] = hubLast.before[q]
        /\ \A q \in QueueIds \ (hubLast.subs \cup hubLast.gone) : hubQ[q] = <<>>

\* a publish that began with one queue subscribed, one unsubscribed with
\* events still in it, and one not yet created
C17_Witness ==
    /\ hubLast.fresh
    /\ hubLast.subs # {}
    /\ \E q \in hubLast.gone : hubQ[q] # <<>>
    /\ hubLast.subs \cup hubLast.gone # QueueIds

IsContentDelta(e) == e.t = "ContentDelta"

\* C18: within one invocation the consumer receives the ContentDelta events
\* in the order in which the stdout lines were read and handed to the event
\* sink: once the run is over, the ContentDelta events delivered are exactly
\* those the event sink put on the queue, in the same order, none of them
\* reordered, duplicated or lost.
C18_ContentInOrder ==
    (wf = "code" /\ pc = "done" /\ ~consumerClosed)
        => SelectSeq(Delivered, IsContentDelta) = SelectSeq(queue, IsContentDelta)

\* C19: when a rotation retry starts, the two readers of the previous attempt
\* have returned and its heartbeat has been cancelled or has ended; and
\* nothing that attempt k hands to the event sink or the progress callback
\* comes after the spawn of attempt k+1.
C19_AttemptsDoNotInterleave ==
    /\ (rPc = "spawn" /\ rAttempt > 1) =>
          /\ \A r \in Readers : rRd[r] = "done"
          /\ rHb[rAttempt - 1] \in {"cancelled", "ended"}
    /\ ~rLog.stale

\* a second attempt has delivered an event after the first attempt's
\* heartbeat and reader delivered theirs, the heartbeat having been cancelled
\* while it slept
C19_Witness ==
    /\ rAttempt = 2
    /\ rLog.beat[1] > 0
    /\ rLog.event[1] > 0
    /\ rLog.event[2] > 0
    /\ rHb[1] = "cancelled"

\* C20: no stderr line is ever turned into content: it is in neither
\* output_buffer (from which the progress body is cut), nor a ContentDelta on
\* the queue, nor the output of the result; every stderr line read is
\* appended to error_output, and only there.
C20_StderrNeverContent ==
    /\ \A i \in 1..Len(output_buffer) : output_buffer[i].k \notin ErrKinds
    /\ \A i \in 1..Len(queue) : queue[i].x \notin ErrKinds
    /\ \A i \in 1..Len(result.output) : result.output[i].k \notin ErrKinds
    /\ \A i \in 1..Len(error_output) : error_output[i].k \in ErrKinds
    /\ (procSpawned /\ ReaderRuns) => Len(error_output) = nRead["err"]

\* a run that read a stderr line next to its stdout content and returned a
\* result
C20_Witness ==
    /\ inv = "stream"
    /\ error_output # <<>>
    /\ result.output # <<>>
    /\ \E i \in 1..Len(queue) : queue[i].t = "ContentDelta"

\* C21: get_command is a pure function of its arguments and the assistant's
\* model settings: two calls with the same arguments and no rotation or
\* model change between them return the same argv, and a call leaves the
\* assistant (current, plan and build model) as it found it.
C21_GetCommandPure ==
    /\ aNow.made => asst = aNow.before
    /\ (aNow.made /\ aPrev.made /\ aNow.args = aPrev.args) => aNow.argv = aPrev.argv

\* two calls with the same arguments were made in a row, for a plan agent
\* whose model comes from the assistant's settings
C21_Witness ==
    /\ aNow.made /\ aPrev.made
    /\ aNow.args = aPrev.args
    /\ asst.name = "opencode"
    /\ aNow.args.agent = "plan" /\ aNow.args.model = NoModel
    /\ asst.plan_model # DefaultPlanModel

\* C22: rotate_model on an assistant with a list of N models moves to the
\* next entry and returns True when the current model is not the last, and
\* returns False leaving the model alone when it is the last; the index
\* never decreases and True is returned at most N-1 times.  An assistant
\* without a list returns False and changes nothing.
C22_RotateModel ==
    /\ aTrue <= NumModels - 1
    /\ aRot.made =>
         LET was == IndexOf(GeminiModels, aRot.before.current_model)
             is == IndexOf(GeminiModels, asst.current_model)
         IN IF asst.name = "gemini"
            THEN /\ was >= 1
                 /\ is >= was
                 /\ was < NumModels => (aRot.ok /\ is = was + 1)
                 /\ was = NumModels => (~aRot.ok /\ is = was)
                 /\ asst = [aRot.before EXCEPT !.current_model = GeminiModels[is]]
            ELSE ~aRot.ok /\ asst = aRot.before

\* the list was rotated through, and a further call returned False
C22_Witness ==
    /\ asst.name = "gemini"
    /\ aTrue = NumModels - 1
    /\ aRot.made /\ ~aRot.ok
    /\ asst.current_model = GeminiModels[NumModels]

\* an assistant without a list was asked to rotate
C22_WitnessNoList == asst.name = "opencode" /\ aRot.made /\ ~aRot.ok

\* C23: when create_subprocess_exec raises FileNotFoundError, run_streaming
\* raises at that spawn: the step spawns no process and leaves the
\* assistant's model alone, the queue then ends with FAILED and the sentinel,
\* and from then on no process is spawned and the model does not change.
C23_NotFoundFatal ==
    [][/\ (inv = "stream" /\ pc = "e_spawn" /\ outcome' = "notfound")
            => /\ modelIdx' = modelIdx
               /\ spawns' = spawns
               /\ pc' = "done"
               /\ UpToSentinel(queue') # queue'
               /\ UpToSentinel(queue')[Len(UpToSentinel(queue'))] = Failed
       /\ (inv = "stream" /\ outcome = "notfound")
            => /\ modelIdx' = modelIdx
               /\ spawns' = spawns
               /\ procSpawned' = procSpawned
               /\ UNCHANGED <<inv, outcome, pc, queue>>]_allVars

\* the first spawn of a run_streaming failed: nothing was spawned, and the
\* user has sent a cancel request since
C23_Witness ==
    /\ wf = "code"
    /\ inv = "stream"
    /\ outcome = "notfound"
    /\ spawns = 0
    /\ cancels > 0

\* C24: for a fixed stage with default duration D and no samples, the
\* progress get_progress reports does not decrease as the elapsed time t
\* grows from 0 on, equals the prior stages' weight plus the stage's weight
\* times min(1, t/D), and lies in [0, 1].  (Fails: at t = 0 the stage
\* progress is 0.5, not 0.)
C24_ProgressMonotone ==
    /\ eLast.made =>
         /\ eLast.progress = LinearProgress(eStage, eLast.elapsed)
         /\ eLast.progress >= 0
         /\ eLast.progress <= 2 * 100 * BaseDuration[eStage]
    /\ (eLast.made /\ ePrev.made) => eLast.progress >= ePrev.progress

\* C25: every chunk split_message returns for a non-empty text, its " [i/n]"
\* suffix included, is at most max_length long, however many chunks there
\* are.  (Fails: room is kept for a one-character total only.)
C25_ChunkWithinMax ==
    (spPc = "done" /\ spText # <<>>) =>
        \A i \in 1..Len(spChunks) : ChunkLen(spChunks[i]) <= spMax

\* C26: consume_domain_events handles a ContentDelta whose text is empty or
\* whitespace only, and a ProgressUpdate with every optional field unset,
\* without raising: the empty ContentDelta sends no message and leaves
\* reply_to_id alone, and the loop goes on to the next event.
C26_ToleratesEmptyEvents ==
    /\ (dvLast.ev.t = "ContentDelta" /\ dvLast.ev.arg \in {"empty", "ws"})
          => /\ dvPc = "loop"
             /\ dvLast.sends = 0
             /\ dvReply = dvLast.reply
    /\ (dvLast.ev.t = "ProgressUpdate" /\ dvLast.ev.arg = "unset")
          => /\ dvPc = "loop"
             /\ dvLast.sends = 0

\* a whitespace-only ContentDelta was handled after content had moved the
\* reply chain on
C26_Witness ==
    /\ dvLast.ev = DeliveryEvent("ContentDelta", "ws")
    /\ dvLast.reply # 1
    /\ dvStatus # 0

\* a bare ProgressUpdate was handled while a status bubble existed
C26_WitnessProgress ==
    /\ dvLast.ev = DeliveryEvent("ProgressUpdate", "unset")
    /\ dvLast.edits = 1

\* the last event's branch made a stage/header transition
Transitioned == hdStep.header \/ hdStep.cleared \/ hdStep.timer \/ hdStep.stage

\* C27: a stage/header transition (new header, cleared body, restarted
\* bubble timer, new progress stage) happens only at a stdout event whose
\* type differs from the previous stdout event's: within a run of TEXT
\* events or of REASONING events only the first can make one.  (Fails:
\* the TEXT branch never records TEXT as the last type, and the REASONING
\* branch restarts the stage at every event.)
C27_TransitionOnTypeChange == Transitioned => hdStep.type # hdStep.prev

\* C27, the header alone and TEXT events alone: a TEXT event that follows a
\* TEXT event writes no header.  (Fails as well.)
C27_TextRunOneHeader ==
    (hdStep.type = "text" /\ hdStep.prev = "text") => ~hdStep.header

\* the state the queue's first n events have announced: that of the last
\* StateChanged among them, CODING (announced before streaming) if none
Announced(n) ==
    LET at == {i \in 1..n : skQ[i].t = "StateChanged"}
    IN IF at = {} THEN "coding"
       ELSE skQ[CHOOSE i \in at : \A j \in at : j <= i].s

\* C28: during streaming one WorkflowState is current; after a TOOL_USE
\* event it is EXECUTING, after a TEXT, REASONING or TOOL_RESULT event it is
\* CODING; a StateChanged is put exactly when the state's value changes
\* (every StateChanged differs from the state announced before it, and once
\* the put has been made the announced state is the current one); and every
\* ContentDelta carries the state current, and announced, when it is put.
C28_SinkState ==
    /\ skStage \in {"coding", "executing"}
    /\ (skPc = "idle" /\ skEv.type = "tool_use") => skStage = "executing"
    /\ (skPc = "idle" /\ skEv.type \in {"text", "reasoning", "tool_result"})
          => skStage = "coding"
    /\ skPc \notin {"emit", "emit_result"} => Announced(Len(skQ)) = skStage
    /\ \A i \in 1..Len(skQ) :
          /\ skQ[i].t = "StateChanged" => skQ[i].s # Announced(i - 1)
          /\ skQ[i].t = "ContentDelta" => skQ[i].s = Announced(i - 1)

\* a tool's result with content was delivered under EXECUTING, and the
\* state went back to CODING after it
C28_Witness ==
    /\ skPc = "idle"
    /\ skEv = [type |-> "tool_result", content |-> TRUE]
    /\ Len(skQ) >= 3
    /\ skQ[Len(skQ)] = StateChanged("coding")
    /\ skQ[Len(skQ) - 1] = ContentDelta("tool_result", "executing")

\* C29: a heartbeat payload is handed to the progress callback only while
\* the process has not exited: none once the process's exit has happened,
\* and none after run_streaming has returned.  (Fails: the exit is tested
\* before the 5 s sleep, not after it.)
C29_BeatOnlyWhileRunning == ~rLog.exited /\ ~rLog.returned

\* C30: a heartbeat payload reaches the progress callback only once 10 s have
\* elapsed, and never within the edit rate-limit interval of a
\* content-driven payload, whichever of the two came first.
C30_BeatAfterThresholdAndRateLimit ==
    /\ bBeat.at # Never =>
          /\ bBeat.at >= MinElapsed
          /\ bBeat.at - bBeat.content >= EditRateLimit
    /\ bContent.at # Never => bContent.at - bContent.beat >= EditRateLimit

\* C31: a step of the heartbeat task (its wake-up in run_streaming or in
\* compress_conversation, or the wake-up of the HeartbeatManager it started)
\* leaves the readers' state as it was: output buffer, error buffer, token
\* count, active header, active body, last event type, last-activity time.
C31_BeatOnlyReads == [][(BeatWake \/ BeatManagerWake) => bOwned' = bOwned]_allVars

\* a run_streaming heartbeat payload went out carrying what the readers wrote
C31_Witness ==
    /\ bMode = "stream"
    /\ bBeat.at # Never
    /\ bBeat.body > 0
    /\ bBeat.tokens > 0
    /\ bOwned.error_output > 0
    /\ bOwned.last_activity > 0

\* the same for compress_conversation
C31_WitnessCompress ==
    /\ bMode = "compress"
    /\ bBeat.at # Never
    /\ bBeat.body > 0
    /\ bOwned.last_activity > 0

\* C32: the completed part of the progress counts only stages completed in
\* this invocation.  For the first stage an estimator is given, no stage has
\* been completed, so once time has passed the progress is the stage's
\* weight times min(1, elapsed / estimated duration) and nothing more.
C32_OnlyCompletedStagesCount ==
    (eLast.made /\ eFirst /\ eLast.elapsed > 0) =>
        eLast.progress = 2 * StageWeight[eStage] * Min(BaseDuration[eStage], eLast.elapsed)

\* C33: analyze_prompt_complexity returns a score within [0, 1], the label
\* simple below 0.2, moderate below 0.4, complex below 0.6 and very complex
\* from there on, and an estimated duration of the base total times
\* (1 + 0.5 * score), between 1 and 1.5 times the base total.
C33_ComplexityScore ==
    cxResult.made =>
        LET score == cxResult.complexity_score
            label == cxResult.complexity_label
            total == estimate_total_duration
        IN /\ 0 <= score /\ score <= 1000
           /\ (label = "simple") = (score < 200)
           /\ (label = "moderate") = (200 <= score /\ score < 400)
           /\ (label = "complex") = (400 <= score /\ score < 600)
           /\ (label = "very complex") = (600 <= score)
           /\ 2 * cxResult.estimated_duration = total * (2 * 2000 + 2 * score)
           /\ 2000 * total <= cxResult.estimated_duration
           /\ 2 * cxResult.estimated_duration <= 3 * 2000 * total

\* a prompt past every cap: more than 100 words, 5 blocks and 10 file references
C33_Witness ==
    /\ cxResult.made
    /\ word_count(cxPrompt) > 100
    /\ code_blocks(cxPrompt) > 5
    /\ cxPrompt.file_ref > 10
    /\ cxPrompt.keyword > 0
    /\ cxResult.complexity_score = 1000
    /\ cxResult.complexity_label = "very complex"

\* C34: among the StateChanged events delivered to the consumer of a #code
\* workflow, no two in a row carry the same WorkflowState.
C34_StateChangedOnlyOnChange ==
    wf = "code" =>
        LET IsStateChanged(e) == e.t = "StateChanged"
            changes == SelectSeq(Delivered, IsStateChanged)
        IN \A i \in 1..(Len(changes) - 1) : changes[i].s # changes[i + 1].s

\* the events from..to, oldest first
EventRun(from, to) == [i \in 1..(IF to < from THEN 0 ELSE to - from + 1) |-> from + i - 1]

\* C35: subscribers are independent.  The queue of every subscriber holds,
\* in publication order, the most recent (at most maxsize) of the events
\* that were published since it subscribed and that its reader has not
\* taken, whatever was dropped from or taken out of the other queues.
C35_SubscribersIndependent ==
    \A q \in hubSubs :
        LET last == hubNext - 1
            first == Max(hubMark[q] + 1, last - MaxQueueSize + 1)
        IN hubQ[q] = EventRun(first, last)

\* a publish dropped the oldest event of one subscriber's full queue while
\* another subscriber, whose reader had taken events, lost nothing
C35_Witness ==
    /\ hubLast.fresh
    /\ \E q, r \in hubLast.subs :
          /\ Len(hubLast.before[q]) = MaxQueueSize
          /\ Head(hubQ[q]) # Head(hubLast.before[q])
          /\ hubMark[r] > 0
          /\ hubLast.before[r] # <<>>
          /\ hubQ[r] = Append(hubLast.before[r], hubLast.ev)

C37_EmptyWindowFails ==
    ssWf.window = "empty" =>
        /\ ssWf.pc = "done"
        /\ ssWf.spawns = 0
        /\ ssWf.writes = 0
        /\ ssWf.emitted = <<Started, StateChanged("transcribing"),
                            ProcessingFailed("transcribing"), Failed>>

\* the window was found empty although the chat has a history
C37_Witness ==
    /\ ssWf.window = "empty"
    /\ ssWf.pc = "done"
    /\ ssState.history # <<>>
    /\ ssState.window_start = Len(ssState.history)

\* C38: whatever SessionManager calls were made for a chat, window_start lies
\* between 0 and len(history); right after advance_window the conversation
\* window is empty; a call other than clear_conversation leaves the history
\* it found as the beginning of the history it leaves; and no two adjacent
\* entries of the history agree in role, content and solo.
C38_WindowWithinHistory ==
    /\ 0 <= ssState.window_start
    /\ ssState.window_start <= Len(ssState.history)
    /\ ssLast.op = "advance_window" => get_conversation_window(ssState) = <<>>
    /\ ssLast.op # "clear_conversation" => ssLast.kept
    /\ \A i \in 1..(Len(ssState.history) - 1) : ssState.history[i] # ssState.history[i + 1]

\* add_message has just skipped a repeated message, after the window had
\* been advanced past the entries of the history
C38_Witness ==
    /\ ssLast.op = "add_message"
    /\ ssLast.same
    /\ Len(ssState.history) > 1
    /\ ssState.window_start = Len(ssState.history)

\* a history with entries in and before the window has just been cleared
C38_WitnessCleared ==
    /\ ssLast.op = "clear_conversation"
    /\ ~ssLast.kept
    /\ ssState.history = <<>>
    /\ ssState.window_start = 0

\* the events handled so far are a beginning of what a workflow produces: at
\* most one ProcessingFailed, and a FAILED only as the last event
WorkflowShaped ==
    /\ dvFail.pf <= 1
    /\ dvFail.failed <= 1
    /\ dvFail.failed = 1 => dvLast.ev = DeliveryEvent("LifecycleEvent", "failed")

\* C39: over an event sequence a workflow produces, consume_domain_events
\* sends at most one failure message; a FAILED that follows a
\* ProcessingFailed sends none, and a FAILED with no ProcessingFailed before
\* it sends exactly one.
C39_OneFailureMessage ==
    WorkflowShaped =>
        /\ dvFail.sends <= 1
        /\ (dvFail.failed = 1 /\ dvFail.pf = 1) => dvLast.sends = 0
        /\ (dvFail.failed = 1 /\ dvFail.pf = 0) => (dvLast.sends = 1 /\ dvFail.sends = 1)

\* STARTED, ProcessingFailed, FAILED: the failure was reported once, by the
\* ProcessingFailed branch, and FAILED only edited the status bubble
C39_Witness ==
    /\ dvStatus # 0
    /\ dvFail = [sends |-> 1, pf |-> 1, failed |-> 1]
    /\ dvLast.ev = DeliveryEvent("LifecycleEvent", "failed")
    /\ dvLast.sends = 0
    /\ dvLast.edits = 1

\* a FAILED with no ProcessingFailed before it was reported once
C39_WitnessFailedAlone ==
    /\ dvFail = [sends |-> 1, pf |-> 0, failed |-> 1]
    /\ dvLast.ev = DeliveryEvent("LifecycleEvent", "failed")
    /\ dvLast.sends = 1

====
